---- MODULE Spec2Model ----
(***************************************************************************)
(* Crawl-and-acquire subsystem of card-data-crawler.                       *)
(*                                                                         *)
(*   SpecRL    concurrent callers of DomainRateLimiter.waitForRateLimit    *)
(*             (src/utils/rateLimiter.js)                                  *)
(*   SpecRun   one run of extractCardData (index.js) with crawlPage /      *)
(*             fetchHTML (crawler/htmlCrawler.js), parsePDF                *)
(*             (crawler/pdfParser.js) and the global rate limiter          *)
(*   SpecRetry ErrorHandler.categorizeError / shouldRetry                  *)
(*             (src/utils/errorHandler.js) applied to a thrown error       *)
(*                                                                         *)
(* Time.  The code reads the clock only through differences                *)
(* (now - lastFill, now - lastRequest), so the model stores each timestamp *)
(* as its age "now - t" in milliseconds, saturated at the largest value    *)
(* the code can tell apart.  Time advances in steps of TickMs while some   *)
(* thread is suspended at an await.  A pending setTimeout is the remaining *)
(* delay of its thread; it may fire at any moment after it reached 0.      *)
(*                                                                         *)
(* Tokens.  TokenBucket.tokens is a float; the model keeps it in fixed     *)
(* point, scaled by `interval`: one whole token is `interval` units, and   *)
(* `elapsed` ms of refill add elapsed * tokensPerInterval units.           *)
(***************************************************************************)
EXTENDS Integers, Sequences, FiniteSets, TLC

\* ---------------------------------------------------------------- bounds
TickMs == 500
NumCallers == 2
MaxCalls == 7
MaxLinks == 4
MaxBudget == 2
MaxAttempt == 4
MaxMaxAttempts == 3
MaxBackoffAttempt == 7
MaxHandled == 51
MaxSources == 3
MaxReports == 2
MaxTracked == 7
NumUrls == 4

\* ------------------------------------------------------ program constants
requestsPerSecond == 2
burstSize == 5
minDelayMsDefault == 500
maxDelayMs == 10000
interval == 1000
retryAttempts == 3
retryDelay == 2000
requestDelayMs == 1500
maxConsecutiveErrors == 3
totalErrorThreshold == 50
relevanceThreshold == 3
\* the values calculateContentRelevance returns for the pages fetched
Scores == {0, 2, 3}
NoScore == -1

Min(a, b) == IF a <= b THEN a ELSE b
Max(a, b) == IF a >= b THEN a ELSE b

Domains == {"hdfcbank.com", "www.hdfcbank.com"}
\* the domains the concurrent callers of SpecRL contend for
CallerDomains == {"www.hdfcbank.com"}
NoDomain == "none"
Callers == 1..NumCallers

VARIABLES
  \* DomainRateLimiter
  minDelayMs,       \* this.options.minDelayMs
  limiters,         \* this.limiters: domain -> TokenBucket, or NoBucket
  lastRequestTime,  \* this.lastRequestTime: domain -> age of the entry, or NoEntry
  \* callers of waitForRateLimit (SpecRL)
  cpc,              \* caller -> "idle" | "spacing" | "waiting" | "permitted"
  cdom,             \* caller -> domain of the call in progress
  ctimer,           \* caller -> remaining ms of its pending setTimeout
  calls,            \* number of calls issued so far
  \* observers
  created,          \* domain -> ms since its bucket was created, saturated
  waited,           \* caller -> ms its call in progress has been blocked, saturated
  grants,           \* domain -> number of permitted requests so far
  \* extractCardData (SpecRun)
  maxPages,         \* settings.crawler.maxPages
  maxPDFs,          \* settings.crawler.maxPDFs
  phase,            \* "Seed" | "Pages" | "PDFs"
  pc,               \* position of the run, see the actions
  internalLinks,    \* linkResults.internalLinks
  pdfLinks,         \* linkResults.pdfLinks
  i,                \* loop index of the current phase (1-based)
  attempt,          \* fetchHTML: attempt; downloadWithRetry: attemptCount
  timer,            \* remaining ms of the pending setTimeout of the run
  permit,           \* domain waitForRateLimit has returned for, not yet used
  lastError,        \* fetchHTML / downloadWithRetry: lastError
  outcome,          \* how the last crawlPage / parsePDF call ended
  sources,          \* aggregator.sources, as the URLs added
  pagesFetched,     \* links crawlPage was called with in the page loop
  pdfsFetched,      \* links parsePDF was called with in the PDF loop
  net,              \* the network request issued last
  sameErrorRun,     \* fetchHTML: failed attempts in a row with the kind of lastError
  \* ErrorHandler.shouldRetry (SpecRetry)
  error,            \* the error passed to shouldRetry
  retryAttempt,     \* its argument `attempt`
  maxAttempts,      \* its argument `maxAttempts`
  retry,            \* its result "true" | "false", "unset" before the call
  \* ErrorHandler.getRetryDelay (SpecBackoff)
  jitter,           \* Math.random() * 1000 of the call
  backoff,          \* its result in ms, NoDelay before the call
  \* ErrorHandler.handleError (SpecErr)
  errors,           \* this.errors
  errorCounts,      \* this.errorCounts: key -> count, 0 for a missing key
  consecutiveErrors, \* this.consecutiveErrors: key -> count, 0 for a missing key
  lastErrorKey,     \* this.lastErrorKey
  handled,          \* how the last handleError call ended, "none" before any
  fatal,            \* the last handleError call found shouldStopProcessing true
  exited,           \* process.exit(1) was called by handleError
  tracked,          \* SpecTrack: keys of the trackError calls since the last reset
  \* CardDataAggregator (SpecAgg)
  cardData,         \* this.cardData
  aggSources,       \* this.sources
  reports,          \* reports getCompletenessReport returned since the last mutation
  \* HTMLCrawler.crawlMultiplePages (SpecBatch)
  concurrency,      \* its argument `concurrency`
  bpc,              \* "idle" | "batch" | "sleep" | "done"
  bi,               \* loop index i (1-based start of the current batch)
  crawl,            \* url index -> "idle" | "pending" | "page" | "null" | "thrown"
  completed,        \* url indexes in the order their crawlPage call settled
  results,          \* results
  batchErrors,      \* errors
  \* HTMLCrawler.crawlPage (SpecRun)
  relevanceScore,   \* crawlPage: relevanceScore of the page fetched, or NoScore
  \* normalizeUrl (SpecNorm)
  rawUrl,           \* the argument of normalizeUrl
  normalized,       \* normalizeUrl(url), NotCalled before the call
  renormalized,     \* normalizeUrl of that result, NotCalled before the call
  \* processLinks (SpecTriage)
  rawLinks,         \* the argument `links`
  triaged,          \* its result, NotCalled before the call
  \* PDFParser.parsePDF (SpecPdf)
  pdfExists,        \* checkPDFExists of the PDF at hand: "none" | "yes" | "no"
  pdfUrl,           \* the argument `pdfUrl`
  pdfOptions,       \* the argument `options`
  ppc,              \* position of the call, see the actions
  tryIndex,         \* downloadWithRetry: index of the URL being tried
  body,             \* bytes of the body of the download in progress
  files,            \* the PDF directory: path -> size of the file, NoFile if absent
  parsedBytes,      \* bytes handed to pdfParse, NoFile if none
  pdfResult         \* what parsePDF returned, NotCalled before it returns

rlvars == <<minDelayMs, limiters, lastRequestTime>>
callervars == <<cpc, cdom, ctimer, calls>>
obsvars == <<created, waited, grants>>
runvars == <<maxPages, maxPDFs, phase, pc, internalLinks, pdfLinks, i, attempt,
             timer, permit, lastError, outcome, sources, pagesFetched,
             pdfsFetched, net, sameErrorRun, relevanceScore>>
retryvars == <<error, retryAttempt, maxAttempts, retry, jitter, backoff>>
ehvars == <<errors, errorCounts, consecutiveErrors, lastErrorKey, handled, fatal,
           exited, tracked>>
aggvars == <<cardData, aggSources, reports>>
batchvars == <<concurrency, bpc, bi, crawl, completed, results, batchErrors>>
urlvars == <<rawUrl, normalized, renormalized, rawLinks, triaged>>
parsevars == <<pdfUrl, pdfOptions, ppc, tryIndex, body, files, parsedBytes,
               pdfResult>>
pdfvars == <<pdfExists, parsevars>>
vars == <<rlvars, callervars, obsvars, runvars, retryvars, ehvars, aggvars,
          batchvars, urlvars, pdfvars>>

NoBucket == [tokens |-> -1, lastFill |-> -1]
NoEntry == -1
NoRequest == [kind |-> "none", host |-> NoDomain, permit |-> NoDomain]
NoStatus == 0
NoDelay == -1
NoError == [class |-> "Error", status |-> NoStatus, code |-> "none", message |-> {}]

\* saturation points of the ages
FillCap == (burstSize * interval) \div requestsPerSecond
\* refill time of one whole token
TokenMs == interval \div requestsPerSecond

\* ------------------------------------------------------------ TokenBucket

\* variant: the bucket starts empty
EmptyBucket == [tokens |-> 0, lastFill |-> 0]

\* constructor: bucket starts full, lastFill = now
NewBucket == [tokens |-> burstSize * interval, lastFill |-> 0]

\* variant: lastFill is reset but no token is added
fillBucketNoRefill(b) == [tokens |-> b.tokens, lastFill |-> 0]

\* fillBucket(): lastFill is the age now - this.lastFill
fillBucket(b) ==
  [tokens |-> Min(burstSize * interval, b.tokens + b.lastFill * requestsPerSecond),
   lastFill |-> 0]

\* variant: the token is taken without the check `this.tokens >= 1`
tryTakeUnchecked(b) ==
  [taken |-> TRUE, bucket |-> [fillBucket(b) EXCEPT !.tokens = @ - interval]]

\* tryTake(): the bucket after the call, and whether a token was taken
tryTake(b) ==
  LET f == fillBucket(b) IN
  IF f.tokens >= interval
    THEN [taken |-> TRUE, bucket |-> [f EXCEPT !.tokens = @ - interval]]
    ELSE [taken |-> FALSE, bucket |-> f]

\* getWaitTime() in ms
getWaitTime(b) ==
  LET f == fillBucket(b) IN
  IF f.tokens >= interval THEN 0
  ELSE ((interval - f.tokens) + requestsPerSecond - 1) \div requestsPerSecond

\* ------------------------------------------------------ DomainRateLimiter

\* getLimiter(domain): creates the bucket on first use
getLimiter(lims, d) ==
  IF lims[d] = NoBucket THEN [lims EXCEPT ![d] = NewBucket] ELSE lims

\* now - (this.lastRequestTime.get(domain) || 0): a missing entry reads as
\* the epoch, which is further back than any configured spacing
timeSinceLastRequest(d) ==
  IF lastRequestTime[d] = NoEntry THEN minDelayMsDefault ELSE lastRequestTime[d]

\* delay(ms): setTimeout clamps a delay below 1 ms to 1 ms
delay(ms) == Max(1, ms)

\* One pass of `while (!limiter.tryTake())` up to its next await or its exit.
\* Runs without suspension, so it is one atomic step of the event loop.
takeLoop(lims, d) ==
  LET r == tryTake(lims[d]) IN
  IF r.taken
    THEN [permitted |-> TRUE, limiters |-> [lims EXCEPT ![d] = r.bucket], wait |-> 0]
    ELSE [permitted |-> FALSE, limiters |-> [lims EXCEPT ![d] = r.bucket],
          wait |-> delay(Min(getWaitTime(r.bucket), maxDelayMs))]

\* waitForRateLimit(domain) from its entry to its first await or its return
waitForRateLimit(d) ==
  LET lims == getLimiter(limiters, d)
      since == timeSinceLastRequest(d) IN
  IF since < minDelayMs
    THEN [state |-> "spacing", limiters |-> lims, wait |-> delay(minDelayMs - since)]
    ELSE LET t == takeLoop(lims, d) IN
         [state |-> IF t.permitted THEN "permitted" ELSE "waiting",
          limiters |-> t.limiters, wait |-> t.wait]

\* waitForRateLimit(domain) resumed after one of its delays
resumeRateLimit(d) ==
  LET t == takeLoop(limiters, d) IN
  [state |-> IF t.permitted THEN "permitted" ELSE "waiting",
   limiters |-> t.limiters, wait |-> t.wait]

\* passage of ms milliseconds, seen by the limiter
AgeLimiters(ms) ==
  [d \in Domains |->
     IF limiters[d] = NoBucket THEN NoBucket
     ELSE [limiters[d] EXCEPT !.lastFill = Min(FillCap, @ + ms)]]

AgeLastRequest(ms) ==
  [d \in Domains |->
     IF lastRequestTime[d] = NoEntry THEN NoEntry
     ELSE Min(minDelayMsDefault, lastRequestTime[d] + ms)]

\* ------------------------------------------- SpecRL: concurrent callers

\* the effect of one run of waitForRateLimit code on caller c, given its result
Advance(c, d, r) ==
  /\ limiters' = r.limiters
  /\ cpc' = [cpc EXCEPT ![c] = r.state]
  /\ ctimer' = [ctimer EXCEPT ![c] = r.wait]
  /\ IF r.state = "permitted"
       THEN /\ lastRequestTime' = [lastRequestTime EXCEPT ![d] = 0]
            /\ grants' = [grants EXCEPT ![d] = @ + 1]
       ELSE UNCHANGED <<lastRequestTime, grants>>

\* a caller invokes waitForRateLimit(d)
Call(c, d) ==
  /\ cpc[c] = "idle"
  /\ calls < MaxCalls
  /\ calls' = calls + 1
  /\ cdom' = [cdom EXCEPT ![c] = d]
  /\ Advance(c, d, waitForRateLimit(d))
  /\ UNCHANGED <<minDelayMs, created, waited, runvars, retryvars, ehvars, aggvars, batchvars,
                 urlvars, pdfvars>>

\* the pending delay of a caller fires
Wake(c) ==
  /\ cpc[c] \in {"spacing", "waiting"}
  /\ ctimer[c] = 0
  /\ Advance(c, cdom[c], resumeRateLimit(cdom[c]))
  /\ UNCHANGED <<minDelayMs, cdom, calls, created, waited, runvars, retryvars, ehvars, aggvars, batchvars,
                 urlvars, pdfvars>>

\* waitForRateLimit has returned; the caller goes on with its request
Return(c) ==
  /\ cpc[c] = "permitted"
  /\ cpc' = [cpc EXCEPT ![c] = "idle"]
  /\ cdom' = [cdom EXCEPT ![c] = NoDomain]
  /\ waited' = [waited EXCEPT ![c] = 0]
  /\ UNCHANGED <<rlvars, ctimer, calls, created, grants, runvars, retryvars, ehvars, aggvars, batchvars,
                 urlvars, pdfvars>>

\* TickMs milliseconds pass
TickRL ==
  /\ \E c \in Callers : cpc[c] # "permitted" /\ (cpc[c] = "idle" => calls < MaxCalls)
  /\ limiters' = AgeLimiters(TickMs)
  /\ lastRequestTime' = AgeLastRequest(TickMs)
  /\ ctimer' = [c \in Callers |-> Max(0, ctimer[c] - TickMs)]
  /\ created' = [d \in Domains |->
                   IF limiters[d] = NoBucket THEN 0 ELSE Min(TokenMs, created[d] + TickMs)]
  /\ waited' = [c \in Callers |->
                  IF cpc[c] \in {"spacing", "waiting"}
                    THEN Min(TokenMs, waited[c] + TickMs) ELSE waited[c]]
  /\ UNCHANGED <<minDelayMs, cpc, cdom, calls, grants, runvars, retryvars, ehvars, aggvars, batchvars,
                 urlvars, pdfvars>>

InitLimiter ==
  /\ limiters = [d \in Domains |-> NoBucket]
  /\ lastRequestTime = [d \in Domains |-> NoEntry]

InitCallers ==
  /\ cpc = [c \in Callers |-> "idle"]
  /\ cdom = [c \in Callers |-> NoDomain]
  /\ ctimer = [c \in Callers |-> 0]
  /\ calls = 0
  /\ created = [d \in Domains |-> 0]
  /\ waited = [c \in Callers |-> 0]
  /\ grants = [d \in Domains |-> 0]

\* the run before extractCardData is called
InitRunVars ==
  /\ phase = "Seed"
  /\ pc = "start"
  /\ internalLinks = << >>
  /\ pdfLinks = << >>
  /\ i = 1
  /\ attempt = 0
  /\ timer = 0
  /\ permit = NoDomain
  /\ lastError = "none"
  /\ outcome = "none"
  /\ sources = << >>
  /\ pagesFetched = << >>
  /\ pdfsFetched = << >>
  /\ net = NoRequest
  /\ sameErrorRun = 0
  /\ relevanceScore = NoScore

\* no call of shouldRetry
InitRetryVars ==
  /\ error = NoError
  /\ retryAttempt = 1
  /\ maxAttempts = retryAttempts
  /\ retry = "unset"
  /\ jitter = 0
  /\ backoff = NoDelay

\* the keys `${type}:${context.url || 'unknown'}` of the errors handled
TrackedTypes == {"TIMEOUT", "SERVER_ERROR"}
TrackedUrls == {"https://www.hdfcbank.com/personal/offers"}
Keys == TrackedTypes \X TrackedUrls
NoKey == <<"none", "none">>

\* new ErrorHandler(): no error tracked
InitErrorHandler ==
  /\ errors = << >>
  /\ errorCounts = [k \in Keys |-> 0]
  /\ consecutiveErrors = [k \in Keys |-> 0]
  /\ lastErrorKey = NoKey
  /\ handled = "none"
  /\ fatal = FALSE
  /\ exited = FALSE
  /\ tracked = << >>

\* ---------------------------------------------------------------------
\* CardDataAggregator: the values of a card record
\* ---------------------------------------------------------------------

\* A string is the sequence of its characters; " " is the whitespace
\* String.prototype.trim removes.  null and undefined are one-element
\* sequences no string equals; a missing array is AbsentArray.
Null == <<"null">>
Undefined == <<"undefined">>
AbsentArray == << <<"undefined">> >>

RECURSIVE trimStart(_)
trimStart(s) ==
  IF s = << >> THEN s
  ELSE IF Head(s) = " " THEN trimStart(Tail(s)) ELSE s

RECURSIVE trimEnd(_)
trimEnd(s) ==
  IF s = << >> THEN s
  ELSE IF s[Len(s)] = " " THEN trimEnd(SubSeq(s, 1, Len(s) - 1)) ELSE s

\* a trim that leaves trailing whitespace
trimStartOnly(s) == trimStart(s)

\* String.prototype.trim
trim(s) == trimEnd(trimStart(s))

\* Array.prototype.includes
includes(arr, x) == \E k \in DOMAIN arr : arr[k] = x

\* cardSchema: the fields of type 'string', 'array' and 'object', and the
\* properties of the object fields
ScalarFields == {"cardName", "annualFee", "joiningFee", "interestRate",
                 "cardType", "creditLimit", "foreignCurrencyMarkup"}
ArrayFields == {"rewards", "benefits", "eligibilityCriteria",
                "documentsRequired", "otherCharges", "welcomeBenefits",
                "milestoneBenefits", "redemptionOptions"}
ObjectFields == {"links", "loungeAccess", "insurance", "contactInfo"}
Fields == ScalarFields \cup ArrayFields \cup ObjectFields
StringKeys == {<<"links", "termsAndConditions">>,
               <<"loungeAccess", "domestic">>,
               <<"loungeAccess", "international">>,
               <<"insurance", "travelInsurance">>,
               <<"insurance", "accidentalDeath">>,
               <<"insurance", "liabilityCover">>,
               <<"contactInfo", "phone">>,
               <<"contactInfo", "email">>}
ArrayKeys == {<<"links", "pdfs">>}

\* createEmptyCardData(): [] for an array, {} for an object, null otherwise
createEmptyCardData ==
  [scalar |-> [f \in ScalarFields |-> Null],
   array |-> [f \in ArrayFields |-> << >>],
   strKey |-> [k \in StringKeys |-> Undefined],
   arrKey |-> [k \in ArrayKeys |-> AbsentArray]]

\* new CardDataAggregator()
InitAgg ==
  /\ cardData = createEmptyCardData
  /\ aggSources = << >>
  /\ reports = << >>

\* no call of crawlMultiplePages
InitBatch ==
  /\ concurrency = 3
  /\ bpc = "idle"
  /\ bi = 1
  /\ crawl = [u \in 1..NumUrls |-> "idle"]
  /\ completed = << >>
  /\ results = << >>
  /\ batchErrors = << >>

\* no call of normalizeUrl or processLinks
NotCalled == <<"not called">>
NotTriaged == [called |-> FALSE, internalLinks |-> << >>, pdfLinks |-> << >>]
InitUrl ==
  /\ rawUrl = << >>
  /\ normalized = NotCalled
  /\ renormalized = NotCalled
  /\ rawLinks = << >>
  /\ triaged = NotTriaged

\* the file parsePDF downloads to, and the PDF directory without it
NoFile == -1
NoPath == "null"
filePath == "data/pdfs/mitc.pdf"
NoFiles == [p \in {filePath} |-> NoFile]
NotReturned == [returned |-> "no", filePath |-> NoPath, fileSize |-> NoFile]

NoUrl == [href |-> "none", host |-> "none", onBase |-> FALSE, ignored |-> FALSE,
          priority |-> 0, isPDF |-> FALSE, dirty |-> FALSE]

\* no call of parsePDF
InitPdf ==
  /\ pdfExists = "none"
  /\ pdfUrl = NoUrl
  /\ pdfOptions = [keepFile |-> FALSE]
  /\ ppc = "idle"
  /\ tryIndex = 0
  /\ body = 0
  /\ files = NoFiles
  /\ parsedBytes = NoFile
  /\ pdfResult = NotReturned

InitRL ==
  /\ minDelayMs \in {0, minDelayMsDefault}
  /\ InitLimiter
  /\ InitCallers
  /\ maxPages = 1
  /\ maxPDFs = 1
  /\ InitRunVars
  /\ InitErrorHandler
  /\ InitAgg
  /\ InitBatch
  /\ InitUrl
  /\ InitPdf
  /\ InitRetryVars

NextRL ==
  \/ \E c \in Callers, d \in CallerDomains : Call(c, d)
  \/ \E c \in Callers : Wake(c)
  \/ \E c \in Callers : Return(c)
  \/ TickRL

SpecRL == InitRL /\ [][NextRL]_vars

\* fairness of the event loop: time passes, due timers fire, and a caller
\* whose await has resolved is resumed
FairSpecRL ==
  /\ SpecRL
  /\ WF_vars(TickRL)
  /\ \A c \in Callers : WF_vars(Wake(c)) /\ WF_vars(Return(c))

\* caller c is permitted on domain d in this step
PermitStep(c, d) ==
  /\ cpc[c] # "permitted"
  /\ cpc'[c] = "permitted"
  /\ cdom'[c] = d

\* the call of c was issued at the instant the bucket of d was created
Immediate(c, d) == waited[c] = created[d]

\* C6: any two consecutive permitted requests to one domain are at least
\* minDelayMs apart, for concurrent as well as sequential callers.
C6_MinSpacing ==
  [][\A c \in Callers, d \in Domains :
       (PermitStep(c, d) /\ grants[d] >= 1) => lastRequestTime[d] >= minDelayMs]_vars

\* C7: a domain's token count stays within [0, burstSize], a step permits at
\* most one caller, and a caller is permitted only by a check-and-decrement
\* that saw at least one whole token and removed exactly one.
C7_TokensLinearizable ==
  /\ [](\A d \in Domains : limiters[d] # NoBucket =>
          (limiters[d].tokens >= 0 /\ limiters[d].tokens <= burstSize * interval))
  /\ [][\A d \in Domains :
          /\ grants'[d] \in {grants[d], grants[d] + 1}
          /\ Cardinality({c \in Callers : PermitStep(c, d)}) = grants'[d] - grants[d]
          /\ grants'[d] = grants[d] + 1 =>
               LET seen == fillBucket(getLimiter(limiters, d)[d]).tokens IN
               /\ seen >= interval
               /\ limiters'[d].tokens = seen - interval
               /\ \A e \in Domains \ {d} : grants'[e] = grants[e]]_vars

C7_Witness ==
  \E d \in Domains :
    /\ grants[d] > burstSize
    /\ limiters[d].tokens = 0
    /\ \E c \in Callers : cpc[c] = "waiting" /\ cdom[c] = d

\* C8 (as stated): with rate 2/s and burst 5 on a fresh domain, 5 immediately
\* issued acquire calls succeed without any delay and the 6th blocks for at
\* least 500 ms.
C8_BurstThenWait_Original ==
  [][\A c \in Callers, d \in Domains :
       (PermitStep(c, d) /\ Immediate(c, d)) =>
         /\ grants[d] < burstSize => (cpc[c] = "idle" /\ waited[c] = 0)
         /\ grants[d] = burstSize => waited[c] >= TokenMs]_vars

\* C8 (amended): the same with the minimum spacing disabled (minDelayMs = 0).
C8_BurstThenWait ==
  [][\A c \in Callers, d \in Domains :
       (minDelayMs = 0 /\ PermitStep(c, d) /\ Immediate(c, d)) =>
         /\ grants[d] < burstSize => (cpc[c] = "idle" /\ waited[c] = 0)
         /\ grants[d] = burstSize => waited[c] >= TokenMs]_vars

C8_Witness ==
  \E c \in Callers, d \in Domains :
    /\ minDelayMs = 0
    /\ grants[d] = burstSize + 1
    /\ cpc[c] = "permitted" /\ cdom[c] = d
    /\ waited[c] = created[d]
    /\ waited[c] >= TokenMs

cardUrl == [href |-> "https://www.hdfcbank.com/personal/pay/cards/credit-cards/regalia-gold-credit-card",
            host |-> "www.hdfcbank.com", onBase |-> TRUE, ignored |-> FALSE,
            priority |-> 0, isPDF |-> FALSE, dirty |-> FALSE]

\* The anchors a seed page can carry.  A link is its resolved URL with what
\* the pattern tables of settings.js make of it: host (new URL(href).hostname),
\* onBase (hostname.includes(baseDomain)), ignored (isIgnored), priority
\* (getPriorityScore), isPDF (isPDFLink), dirty (cleanPDFUrl changes the URL).
LinkPool ==
  { [href |-> "https://www.hdfcbank.com/personal/offers", host |-> "www.hdfcbank.com",
     onBase |-> TRUE, ignored |-> FALSE, priority |-> 1, isPDF |-> FALSE, dirty |-> FALSE],
    [href |-> "https://www.hdfcbank.com/personal/fees-and-charges", host |-> "www.hdfcbank.com",
     onBase |-> TRUE, ignored |-> FALSE, priority |-> 3, isPDF |-> FALSE, dirty |-> FALSE],
    [href |-> "https://www.hdfcbank.com/login", host |-> "www.hdfcbank.com",
     onBase |-> TRUE, ignored |-> TRUE, priority |-> 0, isPDF |-> FALSE, dirty |-> FALSE],
    [href |-> "https://www.example.org/cards", host |-> "www.example.org",
     onBase |-> FALSE, ignored |-> FALSE, priority |-> 2, isPDF |-> FALSE, dirty |-> FALSE],
    [href |-> "https://www.hdfcbank.com/content/mitc.pdf", host |-> "www.hdfcbank.com",
     onBase |-> TRUE, ignored |-> FALSE, priority |-> 2, isPDF |-> TRUE, dirty |-> FALSE],
    [href |-> "https://hdfcbank.com/docs/Premiuum-terms.pdf", host |-> "hdfcbank.com",
     onBase |-> TRUE, ignored |-> FALSE, priority |-> 4, isPDF |-> TRUE, dirty |-> TRUE] }

\* the link lists a seed page can yield
LinkLists == UNION {[1..n -> LinkPool] : n \in 0..MaxLinks}

RECURSIVE uniqueLinksFirstValue(_)
\* variant: a href seen again keeps the entry of its first occurrence
uniqueLinksFirstValue(ls) ==
  IF ls = << >> THEN << >>
  ELSE LET front == SubSeq(ls, 1, Len(ls) - 1)
           last == ls[Len(ls)] IN
       IF \E k \in 1..Len(front) : front[k].href = last.href
         THEN uniqueLinksFirstValue(front)
         ELSE Append(uniqueLinksFirstValue(front), last)

RECURSIVE uniqueLinks(_)
\* Array.from(new Map(processedLinks.map(l => [l.href, l])).values()):
\* one entry per href, at the position of its first occurrence and with the
\* value of its last
uniqueLinks(ls) ==
  IF ls = << >> THEN << >>
  ELSE LET unique == uniqueLinks(SubSeq(ls, 1, Len(ls) - 1))
           last == ls[Len(ls)] IN
       IF \E k \in 1..Len(unique) : unique[k].href = last.href
         THEN [k \in 1..Len(unique) |->
                 IF unique[k].href = last.href THEN last ELSE unique[k]]
         ELSE Append(unique, last)

IsPDF(l) == l.isPDF
IsPage(l) == ~l.isPDF
Kept(l) == l.onBase /\ ~l.ignored

\* processLinks(links, baseDomain): drop what is off the base domain or
\* ignored, deduplicate by href, partition by isPDF.  No step reorders.
processLinks(links) ==
  LET processedLinks == SelectSeq(links, Kept)
      unique == uniqueLinks(processedLinks) IN
  [internalLinks |-> SelectSeq(unique, IsPage),
   pdfLinks |-> SelectSeq(unique, IsPDF)]

\* variant: the slice is missing
pagesToCrawlUnsliced == internalLinks

\* internalLinks.slice(0, Math.min(internalLinks.length, maxPages))
pagesToCrawl == SubSeq(internalLinks, 1, Min(Len(internalLinks), maxPages))

\* pdfLinks.slice(0, Math.min(pdfLinks.length, maxPDFs))
pdfsToProcess == SubSeq(pdfLinks, 1, Min(Len(pdfLinks), maxPDFs))

\* the resource the run is fetching
target ==
  IF phase = "Seed" THEN cardUrl
  ELSE IF phase = "Pages" THEN pagesToCrawl[i]
  ELSE pdfsToProcess[i]

\* downloadWithRetry: urlsToTry has the cleaned URL and, when cleaning
\* changed it, the original URL
urlsToTry(l) == IF l.dirty THEN 2 ELSE 1

\* ------------------------------------------- SpecRun: extractCardData

HttpOutcomes == {"ok", "invalid", "404", "429", "4xx", "5xx", "timeout"}
DownloadOutcomes == {"ok", "404", "error"}

\* positions at which the run is suspended on a timer
Sleeping == {"spacing", "waiting", "sleep429", "retrySleep", "delay"}
\* positions at which the run is suspended on the network
InFlight == {"request", "pdfHead", "pdfDownload"}

\* variant: the loop counter is not incremented
sameAttempt(a) == a

\* `attempt++` of the retry loop of fetchHTML
nextAttempt(a) == a + 1

\* a network request as it leaves: it carries the permit of the limiter, if
\* one was obtained for it
Request(kind) == [kind |-> kind, host |-> target.host, permit |-> permit]

\* extractCardData calls crawlPage(settings.cardUrl)
StartSeed ==
  /\ pc = "start" /\ phase = "Seed"
  /\ attempt' = 1
  /\ pc' = "acquire"
  /\ UNCHANGED <<rlvars, callervars, obsvars, maxPages, maxPDFs, phase,
                 internalLinks, pdfLinks, i, timer, permit, lastError, outcome,
                 sources, pagesFetched, pdfsFetched, net,
                 retryvars, ehvars, aggvars, batchvars, sameErrorRun, relevanceScore,
                 urlvars, pdfvars>>

\* page loop: crawlPage(link.href) for the next link of pagesToCrawl
StartPage ==
  /\ pc = "start" /\ phase = "Pages"
  /\ i <= Len(pagesToCrawl)
  /\ pagesFetched' = Append(pagesFetched, target)
  /\ attempt' = 1
  /\ pc' = "acquire"
  /\ UNCHANGED <<rlvars, callervars, obsvars, maxPages, maxPDFs, phase,
                 internalLinks, pdfLinks, i, timer, permit, lastError, outcome,
                 sources, pdfsFetched, net,
                 retryvars, ehvars, aggvars, batchvars, sameErrorRun, relevanceScore,
                 urlvars, pdfvars>>

\* variant: the page loop is left one link early
EndPagesEarly ==
  /\ pc = "start" /\ phase = "Pages"
  /\ i >= Len(pagesToCrawl)
  /\ phase' = "PDFs"
  /\ i' = 1
  /\ UNCHANGED <<rlvars, callervars, obsvars, maxPages, maxPDFs, pc,
                 internalLinks, pdfLinks, attempt, timer, permit, lastError,
                 outcome, sources, pagesFetched, pdfsFetched, net,
                 retryvars, ehvars, aggvars, batchvars, sameErrorRun, relevanceScore,
                 urlvars, pdfvars>>

\* page loop exhausted (or internalLinks empty): on to the PDFs
EndPages ==
  /\ pc = "start" /\ phase = "Pages"
  /\ i > Len(pagesToCrawl)
  /\ phase' = "PDFs"
  /\ i' = 1
  /\ UNCHANGED <<rlvars, callervars, obsvars, maxPages, maxPDFs, pc,
                 internalLinks, pdfLinks, attempt, timer, permit, lastError,
                 outcome, sources, pagesFetched, pdfsFetched, net,
                 retryvars, ehvars, aggvars, batchvars, sameErrorRun, relevanceScore,
                 urlvars, pdfvars>>

\* PDF loop: parsePDF(pdfLink.href).  PDFParser.init() may throw; otherwise
\* parsePDF goes straight to checkPDFExists, which issues axios.head
StartPDF ==
  /\ pc = "start" /\ phase = "PDFs"
  /\ i <= Len(pdfsToProcess)
  /\ pdfsFetched' = Append(pdfsFetched, target)
  /\ pdfExists' = "none"
  /\ \E initOk \in BOOLEAN :
       IF initOk
         THEN /\ net' = Request("HEAD")
              /\ pc' = "pdfHead"
              /\ UNCHANGED outcome
         ELSE /\ outcome' = "throw"
              /\ pc' = "settled"
              /\ UNCHANGED net
  /\ UNCHANGED <<rlvars, callervars, obsvars, maxPages, maxPDFs, phase,
                 internalLinks, pdfLinks, i, attempt, timer, permit, lastError,
                 sources, pagesFetched,
                 retryvars, ehvars, aggvars, batchvars, sameErrorRun, relevanceScore,
                 urlvars, parsevars>>

\* PDF loop exhausted (or pdfLinks empty): "Aggregating Data" is reached
EndPDFs ==
  /\ pc = "start" /\ phase = "PDFs"
  /\ i > Len(pdfsToProcess)
  /\ pc' = "Done"
  /\ UNCHANGED <<rlvars, callervars, obsvars, maxPages, maxPDFs, phase,
                 internalLinks, pdfLinks, i, attempt, timer, permit, lastError,
                 outcome, sources, pagesFetched, pdfsFetched, net,
                 retryvars, ehvars, aggvars, batchvars, sameErrorRun, relevanceScore,
                 urlvars, pdfvars>>

\* the effect of one run of waitForRateLimit code on the run, given its result
AdvanceRun(d, r) ==
  /\ limiters' = r.limiters
  /\ timer' = r.wait
  /\ IF r.state = "permitted"
       THEN /\ lastRequestTime' = [lastRequestTime EXCEPT ![d] = 0]
            /\ permit' = d
            /\ pc' = "permitted"
       ELSE /\ pc' = r.state
            /\ UNCHANGED <<lastRequestTime, permit>>

\* fetchHTML: an attempt begins with withRateLimit(domain, ...)
Acquire ==
  /\ pc = "acquire"
  /\ AdvanceRun(target.host, waitForRateLimit(target.host))
  /\ UNCHANGED <<minDelayMs, callervars, obsvars, maxPages, maxPDFs, phase,
                 internalLinks, pdfLinks, i, attempt, lastError, outcome,
                 sources, pagesFetched, pdfsFetched, net,
                 retryvars, ehvars, aggvars, batchvars, sameErrorRun, relevanceScore,
                 urlvars, pdfvars>>

\* a delay of waitForRateLimit fires
WakeLimiter ==
  /\ pc \in {"spacing", "waiting"}
  /\ timer = 0
  /\ AdvanceRun(target.host, resumeRateLimit(target.host))
  /\ UNCHANGED <<minDelayMs, callervars, obsvars, maxPages, maxPDFs, phase,
                 internalLinks, pdfLinks, i, attempt, lastError, outcome,
                 sources, pagesFetched, pdfsFetched, net,
                 retryvars, ehvars, aggvars, batchvars, sameErrorRun, relevanceScore,
                 urlvars, pdfvars>>

\* withRateLimit: waitForRateLimit has returned, the callback issues axios.get
IssueGet ==
  /\ pc = "permitted"
  /\ net' = Request("GET")
  /\ permit' = NoDomain
  /\ pc' = "request"
  /\ UNCHANGED <<rlvars, callervars, obsvars, maxPages, maxPDFs, phase,
                 internalLinks, pdfLinks, i, attempt, timer, lastError, outcome,
                 sources, pagesFetched, pdfsFetched,
                 retryvars, ehvars, aggvars, batchvars, sameErrorRun, relevanceScore,
                 urlvars, pdfvars>>

\* variant: the loop grants one attempt more
RetryOnceMore(ms) ==
  IF attempt <= retryAttempts
    THEN /\ timer' = delay(ms)
         /\ pc' = "retrySleep"
         /\ UNCHANGED outcome
    ELSE /\ outcome' = "throw"
         /\ pc' = "settled"
         /\ UNCHANGED timer

\* fetchHTML: the tail of the catch block, `if (attempt < retryAttempts)`
RetryOrGiveUp(ms) ==
  IF attempt < retryAttempts
    THEN /\ timer' = delay(ms)
         /\ pc' = "retrySleep"
         /\ UNCHANGED outcome
    ELSE /\ outcome' = "throw"
         /\ pc' = "settled"
         /\ UNCHANGED timer


\* a gate that rejects no page
belowThresholdNever(score) == FALSE

\* crawlPage: if (relevanceScore < 3)
belowThreshold(score) == score < relevanceThreshold

\* the failed attempts in a row with kind o on this URL, this one included
sameKindRun(o) == IF lastError = o THEN sameErrorRun + 1 ELSE 1

\* the GET of fetchHTML settles with outcome o; on success crawlPage scores
\* the page and returns null below the relevance threshold
Response(o) ==
  /\ pc = "request"
  /\ CASE o = "ok" ->
            /\ \E score \in Scores :
                 /\ relevanceScore' = score
                 /\ outcome' = IF belowThreshold(score) THEN "null" ELSE "ok"
            /\ pc' = "settled"
            /\ lastError' = "none"
            /\ sameErrorRun' = 0
            /\ UNCHANGED timer
       [] o \in {"404", "4xx"} ->
            /\ lastError' = o
            /\ sameErrorRun' = sameKindRun(o)
            /\ UNCHANGED relevanceScore
            /\ outcome' = "throw"
            /\ pc' = "settled"
            /\ UNCHANGED timer
       [] o = "429" ->
            /\ lastError' = o
            /\ sameErrorRun' = sameKindRun(o)
            /\ UNCHANGED relevanceScore
            /\ timer' = delay(retryDelay * 2)
            /\ pc' = "sleep429"
            /\ UNCHANGED outcome
       [] OTHER ->
            /\ lastError' = o
            /\ sameErrorRun' = sameKindRun(o)
            /\ UNCHANGED relevanceScore
            /\ RetryOrGiveUp(retryDelay)
  /\ UNCHANGED <<rlvars, callervars, obsvars, maxPages, maxPDFs, phase,
                 internalLinks, pdfLinks, i, attempt, permit, sources,
                 pagesFetched, pdfsFetched, net,
                 retryvars, ehvars, aggvars, batchvars,
                 urlvars, pdfvars>>

\* fetchHTML: the sleep of the 429 branch is over
Wake429 ==
  /\ pc = "sleep429"
  /\ timer = 0
  /\ RetryOrGiveUp(retryDelay * 2)
  /\ UNCHANGED <<rlvars, callervars, obsvars, maxPages, maxPDFs, phase,
                 internalLinks, pdfLinks, i, attempt, permit, lastError,
                 sources, pagesFetched, pdfsFetched, net,
                 retryvars, ehvars, aggvars, batchvars, sameErrorRun, relevanceScore,
                 urlvars, pdfvars>>

\* fetchHTML: the retry sleep is over, next iteration of the loop
WakeRetry ==
  /\ pc = "retrySleep"
  /\ timer = 0
  /\ attempt' = nextAttempt(attempt)
  /\ pc' = "acquire"
  /\ UNCHANGED <<rlvars, callervars, obsvars, maxPages, maxPDFs, phase,
                 internalLinks, pdfLinks, i, timer, permit, lastError, outcome,
                 sources, pagesFetched, pdfsFetched, net,
                 retryvars, ehvars, aggvars, batchvars, sameErrorRun, relevanceScore,
                 urlvars, pdfvars>>

\* the orchestrator's loop moves to the next link: directly, or through
\* sleep(requestDelayMs) when that was asked for and a link remains
NextLink(n, pause) ==
  /\ attempt' = 0
  /\ lastError' = "none"
  /\ sameErrorRun' = 0
  /\ relevanceScore' = NoScore
  /\ outcome' = "none"
  /\ IF pause /\ i < n
       THEN /\ timer' = delay(requestDelayMs)
            /\ pc' = "delay"
            /\ UNCHANGED i
       ELSE /\ i' = i + 1
            /\ pc' = "start"
            /\ UNCHANGED timer

\* crawlPage(settings.cardUrl) returned a page: it becomes the first source
\* and handleLinks triages its links
SeedOk ==
  /\ pc = "settled" /\ phase = "Seed"
  /\ outcome = "ok"
  /\ sources' = Append(sources, cardUrl.href)
  /\ \E links \in LinkLists :
       LET linkResults == processLinks(links) IN
       /\ internalLinks' = linkResults.internalLinks
       /\ pdfLinks' = linkResults.pdfLinks
  /\ phase' = "Pages"
  /\ i' = 1
  /\ pc' = "start"
  /\ attempt' = 0
  /\ lastError' = "none"
  /\ sameErrorRun' = 0
  /\ relevanceScore' = NoScore
  /\ outcome' = "none"
  /\ UNCHANGED <<rlvars, callervars, obsvars, maxPages, maxPDFs, timer,
                 permit, pagesFetched, pdfsFetched, net,
                 retryvars, ehvars, aggvars, batchvars,
                 urlvars, pdfvars>>

\* variant: a failed seed is passed over and the run goes on to aggregate
SeedFailedSkipped ==
  /\ pc = "settled" /\ phase = "Seed"
  /\ outcome \in {"null", "throw"}
  /\ pc' = "Done"
  /\ UNCHANGED <<rlvars, callervars, obsvars, maxPages, maxPDFs, phase,
                 internalLinks, pdfLinks, i, attempt, timer, permit, lastError,
                 outcome, sources, pagesFetched, pdfsFetched, net,
                 retryvars, ehvars, aggvars, batchvars, sameErrorRun, relevanceScore,
                 urlvars, pdfvars>>

\* crawlPage(settings.cardUrl) threw or returned null: the outer catch of
\* extractCardData calls process.exit(1)
SeedFailed ==
  /\ pc = "settled" /\ phase = "Seed"
  /\ outcome \in {"null", "throw"}
  /\ pc' = "Failed"
  /\ UNCHANGED <<rlvars, callervars, obsvars, maxPages, maxPDFs, phase,
                 internalLinks, pdfLinks, i, attempt, timer, permit, lastError,
                 outcome, sources, pagesFetched, pdfsFetched, net,
                 retryvars, ehvars, aggvars, batchvars, sameErrorRun, relevanceScore,
                 urlvars, pdfvars>>

\* page loop: crawlPage returned a page, which is parsed and added
PageOk ==
  /\ pc = "settled" /\ phase = "Pages"
  /\ outcome = "ok"
  /\ sources' = Append(sources, target.href)
  /\ NextLink(Len(pagesToCrawl), TRUE)
  /\ UNCHANGED <<rlvars, callervars, obsvars, maxPages, maxPDFs, phase,
                 internalLinks, pdfLinks, permit, pagesFetched, pdfsFetched, net,
                 retryvars, ehvars, aggvars, batchvars,
                 urlvars, pdfvars>>

\* variant: the page loop has no try/catch, a failed page reaches the outer
\* catch of extractCardData
PageFatal ==
  /\ pc = "settled" /\ phase = "Pages"
  /\ outcome \in {"null", "throw"}
  /\ pc' = "Failed"
  /\ UNCHANGED <<rlvars, callervars, obsvars, maxPages, maxPDFs, phase,
                 internalLinks, pdfLinks, i, attempt, timer, permit, lastError,
                 outcome, sources, pagesFetched, pdfsFetched, net, retryvars, ehvars, aggvars, batchvars, sameErrorRun, relevanceScore,
                 urlvars, pdfvars>>

\* page loop: crawlPage returned null (`continue`) or threw (`catch`)
PageSkipped ==
  /\ pc = "settled" /\ phase = "Pages"
  /\ outcome \in {"null", "throw"}
  /\ NextLink(Len(pagesToCrawl), FALSE)
  /\ UNCHANGED <<rlvars, callervars, obsvars, maxPages, maxPDFs, phase,
                 internalLinks, pdfLinks, permit, sources, pagesFetched,
                 pdfsFetched, net,
                 retryvars, ehvars, aggvars, batchvars,
                 urlvars, pdfvars>>

\* PDF loop: parsePDF returned the text, which is parsed and added
PDFOk ==
  /\ pc = "settled" /\ phase = "PDFs"
  /\ outcome = "ok"
  /\ sources' = Append(sources, target.href)
  /\ NextLink(Len(pdfsToProcess), TRUE)
  /\ UNCHANGED <<rlvars, callervars, obsvars, maxPages, maxPDFs, phase,
                 internalLinks, pdfLinks, permit, pagesFetched, pdfsFetched, net,
                 retryvars, ehvars, aggvars, batchvars,
                 urlvars, pdfvars>>

\* PDF loop: parsePDF returned null (`continue`) or threw (`catch`)
PDFSkipped ==
  /\ pc = "settled" /\ phase = "PDFs"
  /\ outcome \in {"null", "throw"}
  /\ NextLink(Len(pdfsToProcess), FALSE)
  /\ UNCHANGED <<rlvars, callervars, obsvars, maxPages, maxPDFs, phase,
                 internalLinks, pdfLinks, permit, sources, pagesFetched,
                 pdfsFetched, net,
                 retryvars, ehvars, aggvars, batchvars,
                 urlvars, pdfvars>>

\* sleep(settings.crawler.requestDelayMs) is over
WakeDelay ==
  /\ pc = "delay"
  /\ timer = 0
  /\ i' = i + 1
  /\ pc' = "start"
  /\ UNCHANGED <<rlvars, callervars, obsvars, maxPages, maxPDFs, phase,
                 internalLinks, pdfLinks, attempt, timer, permit, lastError,
                 outcome, sources, pagesFetched, pdfsFetched, net,
                 retryvars, ehvars, aggvars, batchvars, sameErrorRun, relevanceScore,
                 urlvars, pdfvars>>

\* variant: parsePDF downloads whatever the probe said
HeadResponseUnheeded(exists) ==
  /\ pc = "pdfHead"
  /\ pdfExists' = IF exists THEN "yes" ELSE "no"
  /\ IF TRUE
       THEN /\ attempt' = 1
            /\ net' = Request("DOWNLOAD")
            /\ pc' = "pdfDownload"
            /\ UNCHANGED outcome
       ELSE /\ outcome' = "null"
            /\ pc' = "settled"
            /\ UNCHANGED <<attempt, net>>
  /\ UNCHANGED <<rlvars, callervars, obsvars, maxPages, maxPDFs, phase,
                 internalLinks, pdfLinks, i, timer, permit, lastError, sources,
                 pagesFetched, pdfsFetched,
                 retryvars, ehvars, aggvars, batchvars, sameErrorRun, relevanceScore,
                 urlvars, parsevars>>

\* checkPDFExists settles: on true parsePDF goes on to downloadWithRetry and
\* its first downloadFile; on false it returns null
HeadResponse(exists) ==
  /\ pc = "pdfHead"
  /\ pdfExists' = IF exists THEN "yes" ELSE "no"
  /\ IF exists
       THEN /\ attempt' = 1
            /\ net' = Request("DOWNLOAD")
            /\ pc' = "pdfDownload"
            /\ UNCHANGED outcome
       ELSE /\ outcome' = "null"
            /\ pc' = "settled"
            /\ UNCHANGED <<attempt, net>>
  /\ UNCHANGED <<rlvars, callervars, obsvars, maxPages, maxPDFs, phase,
                 internalLinks, pdfLinks, i, timer, permit, lastError, sources,
                 pagesFetched, pdfsFetched,
                 retryvars, ehvars, aggvars, batchvars, sameErrorRun, relevanceScore,
                 urlvars, parsevars>>

\* downloadFile settles with outcome o.  A 404 moves to the next of urlsToTry;
\* any other failure, a 404 on the last URL and a failed parsePDFFile all end
\* in `return null`; a parsed file ends in the text
DownloadResponse(o) ==
  /\ pc = "pdfDownload"
  /\ CASE o = "ok" ->
            /\ \E parsed \in BOOLEAN :
                 outcome' = IF parsed THEN "ok" ELSE "null"
            /\ pc' = "settled"
            /\ UNCHANGED <<attempt, lastError, net>>
       [] o = "404" /\ attempt < urlsToTry(target) ->
            /\ lastError' = o
            /\ attempt' = attempt + 1
            /\ net' = Request("DOWNLOAD")
            /\ UNCHANGED <<pc, outcome>>
       [] OTHER ->
            /\ lastError' = o
            /\ outcome' = "null"
            /\ pc' = "settled"
            /\ UNCHANGED <<attempt, net>>
  /\ UNCHANGED <<rlvars, callervars, obsvars, maxPages, maxPDFs, phase,
                 internalLinks, pdfLinks, i, timer, permit, sources,
                 pagesFetched, pdfsFetched,
                 retryvars, ehvars, aggvars, batchvars, sameErrorRun, relevanceScore,
                 urlvars, pdfvars>>

\* aggregation, validation and saveJSON: saveJSON rethrows a write error into
\* the outer catch (process.exit(1)), otherwise the run ends normally
Finish(saved) ==
  /\ pc = "Done"
  /\ pc' = IF saved THEN "Completed" ELSE "Failed"
  /\ UNCHANGED <<rlvars, callervars, obsvars, maxPages, maxPDFs, phase,
                 internalLinks, pdfLinks, i, attempt, timer, permit, lastError,
                 outcome, sources, pagesFetched, pdfsFetched, net,
                 retryvars, ehvars, aggvars, batchvars, sameErrorRun, relevanceScore,
                 urlvars, pdfvars>>

\* TickMs milliseconds pass while the run is suspended
TickRun ==
  /\ pc \in Sleeping \cup InFlight
  /\ limiters' = AgeLimiters(TickMs)
  /\ lastRequestTime' = AgeLastRequest(TickMs)
  /\ timer' = Max(0, timer - TickMs)
  /\ UNCHANGED <<minDelayMs, callervars, obsvars, maxPages, maxPDFs, phase, pc,
                 internalLinks, pdfLinks, i, attempt, permit, lastError, outcome,
                 sources, pagesFetched, pdfsFetched, net,
                 retryvars, ehvars, aggvars, batchvars, sameErrorRun, relevanceScore,
                 urlvars, pdfvars>>

\* globalRateLimiter = new DomainRateLimiter(): default options
InitRun ==
  /\ minDelayMs = minDelayMsDefault
  /\ InitLimiter
  /\ InitCallers
  /\ maxPages \in 1..MaxBudget
  /\ maxPDFs \in 1..MaxBudget
  /\ InitRunVars
  /\ InitErrorHandler
  /\ InitAgg
  /\ InitBatch
  /\ InitUrl
  /\ InitPdf
  /\ InitRetryVars

RunStep ==
  \/ StartSeed \/ StartPage \/ EndPages \/ StartPDF \/ EndPDFs
  \/ Acquire \/ WakeLimiter \/ IssueGet
  \/ \E o \in HttpOutcomes : Response(o)
  \/ Wake429 \/ WakeRetry
  \/ SeedOk \/ SeedFailed \/ PageOk \/ PageSkipped \/ PDFOk \/ PDFSkipped
  \/ WakeDelay
  \/ \E exists \in BOOLEAN : HeadResponse(exists)
  \/ \E o \in DownloadOutcomes : DownloadResponse(o)
  \/ \E saved \in BOOLEAN : Finish(saved)

NextRun == RunStep \/ TickRun

SpecRun == InitRun /\ [][NextRun]_vars

\* fairness of the event loop: time passes, and a continuation that can run
\* (a due timer, a settled request) does run
FairSpecRun == SpecRun /\ WF_vars(TickRun) /\ WF_vars(RunStep)

\* the two loops of extractCardData are over
LoopsOver == pc \in {"Done", "Completed"} \/ (pc = "Failed" /\ phase = "PDFs")

\* a crawlPage / parsePDF call of one of the two loops has just failed
FetchFailed ==
  /\ pc = "settled"
  /\ phase \in {"Pages", "PDFs"}
  /\ outcome \in {"null", "throw"}

\* number of fetches that added no source
Skipped == 1 + Len(pagesFetched) + Len(pdfsFetched) - Len(sources)

\* C1: once the seed fetch has succeeded the run attempts exactly
\* min(maxPages, #internalLinks) page fetches and min(maxPDFs, #pdfLinks) PDF
\* fetches, whatever the outcome of each: never more on the way, exactly
\* that many once its loops are over.
C1_ExactBudget ==
  /\ Len(pagesFetched) <= Min(maxPages, Len(internalLinks))
  /\ Len(pdfsFetched) <= Min(maxPDFs, Len(pdfLinks))
  /\ phase = "PDFs" => Len(pagesFetched) = Min(maxPages, Len(internalLinks))
  /\ LoopsOver => /\ Len(pagesFetched) = Min(maxPages, Len(internalLinks))
                  /\ Len(pdfsFetched) = Min(maxPDFs, Len(pdfLinks))

C1_Witness ==
  /\ pc = "Done"
  /\ Len(internalLinks) > maxPages
  /\ Len(pdfLinks) > maxPDFs
  /\ Len(pagesFetched) = maxPages
  /\ Len(pdfsFetched) = maxPDFs
  /\ Skipped > 0

\* C2: a failed page or PDF fetch is skipped, not fatal: it adds no source,
\* the loop moves on to the next link, and the run still gets through every
\* budgeted link of this phase and of the next and reaches Done.
C2_FailureSkipped ==
  /\ [][FetchFailed => /\ sources' = sources
                       /\ pc' = "start"
                       /\ phase' = phase
                       /\ i' = i + 1]_vars
  /\ (FetchFailed ~> (/\ pc = "Done"
                      /\ Len(pagesFetched) = Min(maxPages, Len(internalLinks))
                      /\ Len(pdfsFetched) = Min(maxPDFs, Len(pdfLinks))))

C2_Witness ==
  /\ pc = "Done"
  /\ Len(pagesFetched) = 2
  /\ Len(pdfsFetched) >= 1
  /\ \A k \in 1..Len(sources) : sources[k] # pagesFetched[1].href
  /\ \E k \in 1..Len(sources) : sources[k] = pagesFetched[2].href

\* C3: every run terminates, normally or by the fatal exit.
C3_Terminates == <>(pc \in {"Completed", "Failed"})

C3_Witness ==
  /\ pc = "Completed"
  /\ Len(pagesFetched) = 2
  /\ Len(pdfsFetched) >= 1
  /\ Skipped >= 2
  /\ Len(sources) >= 2

\* fetched are the highest-priority candidates, in non-increasing priority
\* order
HighestFirst(fetched, candidates) ==
  /\ \A k \in 1..(Len(fetched) - 1) : fetched[k].priority >= fetched[k + 1].priority
  /\ \A k \in 1..Len(fetched), m \in 1..Len(candidates) :
       (\A n \in 1..Len(fetched) : fetched[n].href # candidates[m].href)
         => fetched[k].priority >= candidates[m].priority

\* C4: when the page budget is binding the pages fetched are the maxPages
\* candidates of highest priorityScore, fetched highest first; the same for
\* the PDFs under maxPDFs.
C4_HighestPriorityFirst ==
  LoopsOver =>
    /\ Len(internalLinks) > maxPages => HighestFirst(pagesFetched, internalLinks)
    /\ Len(pdfLinks) > maxPDFs => HighestFirst(pdfsFetched, pdfLinks)

\* C5: every network request (HTML GET attempt, PDF existence probe, PDF
\* download) leaves only after a rate-limiter acquire for its hostname has
\* completed for it.
C5_AcquireBeforeRequest ==
  net.kind # "none" => net.permit = net.host

\* the error classifier's consecutive-failure threshold is reached by the
\* fetch that has just failed: maxConsecutiveErrors failures in a row of one
\* kind on one URL
FatalSignal ==
  /\ pc = "settled"
  /\ outcome = "throw"
  /\ sameErrorRun >= maxConsecutiveErrors

\* C15: from every orchestrator state a fatal-error signal of the error
\* classifier leads to Failed: after it no new fetch is issued and the run
\* moves to Failed, never on to the next link or to Done.
C15_FatalLeadsToFailed ==
  [][FatalSignal => (pc' = "Failed" /\ net' = net)]_vars

\* ------------------------------------------- SpecRetry: ErrorHandler

\* the classes categorizeError tells apart with instanceof; "Error" is any
\* other error (an axios error, a system error)
ErrorClasses == {"Error", "ValidationError", "NetworkError", "RateLimitError",
                 "ParsingError", "DataValidationError"}

\* error.response.status, NoStatus when the error has no response
Statuses == {NoStatus, 302, 403, 404, 429, 503}

\* error.code
Codes == {"none", "ECONNABORTED", "ENOTFOUND", "ECONNREFUSED", "ECONNRESET",
          "ETIMEDOUT", "ENOENT", "EACCES", "EISDIR"}

\* error.message, as the set of the words categorizeError looks for in it
Messages == {{}, {"PDF"}, {"HTML", "URL"}, {"JSON"}, {"URL"}}

Errors == [class : ErrorClasses, status : Statuses, code : Codes, message : Messages]

\* categorizeError(error)
categorizeError(e) ==
  CASE e.class = "ValidationError" -> "VALIDATION"
    [] e.class = "NetworkError" -> "NETWORK"
    [] e.class = "RateLimitError" -> "RATE_LIMIT"
    [] e.class = "ParsingError" -> "PARSING"
    [] e.class = "DataValidationError" -> "DATA_VALIDATION"
    [] OTHER ->
  IF e.status # NoStatus /\ e.status = 429 THEN "RATE_LIMIT"
  ELSE IF e.status # NoStatus /\ e.status = 404 THEN "NOT_FOUND"
  ELSE IF e.status # NoStatus /\ e.status >= 400 /\ e.status < 500 THEN "CLIENT_ERROR"
  ELSE IF e.status # NoStatus /\ e.status >= 500 THEN "SERVER_ERROR"
  ELSE IF e.code = "ECONNABORTED" THEN "TIMEOUT"
  ELSE IF e.code = "ENOTFOUND" THEN "DNS_ERROR"
  ELSE IF e.code = "ECONNREFUSED" THEN "CONNECTION_REFUSED"
  ELSE IF e.code = "ECONNRESET" THEN "CONNECTION_RESET"
  ELSE IF e.code = "ETIMEDOUT" THEN "TIMEOUT"
  ELSE IF e.code = "ENOENT" THEN "FILE_NOT_FOUND"
  ELSE IF e.code = "EACCES" THEN "PERMISSION_DENIED"
  ELSE IF e.code = "EISDIR" THEN "IS_DIRECTORY"
  ELSE IF "PDF" \in e.message THEN "PDF_ERROR"
  ELSE IF "HTML" \in e.message THEN "HTML_ERROR"
  ELSE IF "JSON" \in e.message THEN "JSON_ERROR"
  ELSE IF "URL" \in e.message THEN "URL_ERROR"
  ELSE "UNKNOWN"

noRetryTypes == {"VALIDATION", "DATA_VALIDATION", "FILE_NOT_FOUND",
                 "PERMISSION_DENIED", "IS_DIRECTORY", "CLIENT_ERROR", "NOT_FOUND"}

\* variant: SERVER_ERROR is missing from the list
alwaysRetryTypesNoServer == {"NETWORK", "TIMEOUT", "CONNECTION_RESET",
                             "CONNECTION_REFUSED", "DNS_ERROR"}

alwaysRetryTypes == {"NETWORK", "TIMEOUT", "CONNECTION_RESET",
                     "CONNECTION_REFUSED", "DNS_ERROR", "SERVER_ERROR"}

\* shouldRetry(error, attempt, maxAttempts)
shouldRetry(e, a, m) ==
  IF a >= m THEN FALSE
  ELSE LET errorType == categorizeError(e) IN
       IF errorType \in noRetryTypes THEN FALSE
       ELSE IF errorType \in alwaysRetryTypes THEN TRUE
       ELSE IF errorType = "RATE_LIMIT" THEN a < m + 2
       ELSE FALSE

\* a caller asks whether to retry after `error`
ShouldRetry ==
  /\ retry = "unset"
  /\ retry' = IF shouldRetry(error, retryAttempt, maxAttempts) THEN "true" ELSE "false"
  /\ UNCHANGED <<rlvars, callervars, obsvars, runvars, error, retryAttempt,
                 maxAttempts, jitter, backoff, ehvars, aggvars, batchvars,
                 urlvars, pdfvars>>

InitRetry ==
  /\ minDelayMs = minDelayMsDefault
  /\ InitLimiter
  /\ InitCallers
  /\ maxPages = 1
  /\ maxPDFs = 1
  /\ InitRunVars
  /\ InitErrorHandler
  /\ InitAgg
  /\ InitBatch
  /\ InitUrl
  /\ InitPdf
  /\ error \in Errors
  /\ retryAttempt \in 1..MaxAttempt
  /\ maxAttempts \in 1..MaxMaxAttempts
  /\ retry = "unset"
  /\ jitter = 0
  /\ backoff = NoDelay

NextRetry == ShouldRetry

SpecRetry == InitRetry /\ [][NextRetry]_vars

\* the error kinds of the retry policy, as categorizeError names them
NeverRetried == {"CLIENT_ERROR", "NOT_FOUND", "VALIDATION"}
RetriedBelowMax == {"TIMEOUT", "DNS_ERROR", "CONNECTION_REFUSED",
                    "CONNECTION_RESET", "SERVER_ERROR"}

\* C10: shouldRetry is false at every attempt for an error classified
\* ClientError, NotFound or Validation, and true at every attempt below
\* maxAttempts for one classified Timeout, DNSFailure, ConnectionRefused,
\* ConnectionReset or ServerError; in particular a plain HTTP 404 is never
\* retried and a plain HTTP 5xx is retried at attempt 2 of 3.
C10_RetryPolicy ==
  retry # "unset" =>
    /\ categorizeError(error) \in NeverRetried => retry = "false"
    /\ (categorizeError(error) \in RetriedBelowMax /\ retryAttempt < maxAttempts)
         => retry = "true"
    /\ (error.class = "Error" /\ error.status = 404) => retry = "false"
    /\ (error.class = "Error" /\ error.status >= 500
        /\ retryAttempt = 2 /\ maxAttempts = 3) => retry = "true"

C10_Witness ==
  /\ retry = "true"
  /\ error.class = "Error" /\ error.status = 503
  /\ retryAttempt = 2 /\ maxAttempts = 3

\* C11: an error classified RateLimited is retried at every attempt below
\* maxAttempts + 2; in particular shouldRetry(RateLimited, 4, 3) is true.
C11_ExtendedBudget ==
  (/\ retry # "unset"
   /\ categorizeError(error) = "RATE_LIMIT"
   /\ retryAttempt < maxAttempts + 2) => retry = "true"

\* --------------------------------------- SpecBackoff: getRetryDelay

\* Math.random() * 1000 lies in [0, 1000).  The values drawn are even, so
\* that the factor 1.5 yields whole milliseconds.
Jitters == {0, 500, 998}

\* getRetryDelay(error, attempt), with j the jitter Math.random() * 1000
getRetryDelay(e, a, j) ==
  LET baseDelay == 1000
      errorType == categorizeError(e)
      d == baseDelay * 2^(a - 1) + j
      scaled == CASE errorType = "RATE_LIMIT" -> d * 3
                  [] errorType = "SERVER_ERROR" -> d * 2
                  [] errorType \in {"NETWORK", "CONNECTION_RESET"} -> (d * 3) \div 2
                  [] OTHER -> d
  IN Min(scaled, 60000)

\* a caller asks for the delay before the next attempt
GetRetryDelay ==
  /\ backoff = NoDelay
  /\ backoff' = getRetryDelay(error, retryAttempt, jitter)
  /\ UNCHANGED <<rlvars, callervars, obsvars, runvars, error, retryAttempt,
                 maxAttempts, retry, jitter, ehvars, aggvars, batchvars,
                 urlvars, pdfvars>>

InitBackoff ==
  /\ minDelayMs = minDelayMsDefault
  /\ InitLimiter
  /\ InitCallers
  /\ maxPages = 1
  /\ maxPDFs = 1
  /\ InitRunVars
  /\ InitErrorHandler
  /\ InitAgg
  /\ InitBatch
  /\ InitUrl
  /\ InitPdf
  /\ error \in Errors
  /\ retryAttempt \in 1..MaxBackoffAttempt
  /\ maxAttempts = retryAttempts
  /\ retry = "unset"
  /\ jitter \in Jitters
  /\ backoff = NoDelay

NextBackoff == GetRetryDelay

SpecBackoff == InitBackoff /\ [][NextBackoff]_vars

\* the factor of the backoff formula, as a fraction num / den
FactorNum(kind) ==
  CASE kind = "RATE_LIMIT" -> 6
    [] kind = "SERVER_ERROR" -> 4
    [] kind \in {"CONNECTION_REFUSED", "CONNECTION_RESET", "NETWORK"} -> 3
    [] OTHER -> 2

\* C12: backoffDelay = min(60000, f(kind) * (1000 * 2^(attempt-1) + j)) with
\* f = 3 for RateLimited, 2 for ServerError, 1.5 for every connection-level
\* kind (ConnectionRefused and ConnectionReset alike) and 1 otherwise; the
\* result never exceeds 60 seconds.
C12_BackoffDelay ==
  backoff # NoDelay =>
    /\ backoff = Min(60000, (FactorNum(categorizeError(error))
                             * (1000 * 2^(retryAttempt - 1) + jitter)) \div 2)
    /\ backoff <= 60000

\* ------------------------------------------- SpecErr: handleError

\* the errors handed to handleError: a timeout and an HTTP 503
HandledErrors ==
  { [class |-> "Error", status |-> NoStatus, code |-> "ETIMEDOUT", message |-> {}],
    [class |-> "Error", status |-> 503, code |-> "none", message |-> {}] }

\* context.url of the call (NoDomain would be a context without url)
ContextUrls == {"https://www.hdfcbank.com/personal/offers"}

\* `${type}:${context.url || 'unknown'}`
errorKey(type, url) == <<type, IF url = NoDomain THEN "unknown" ELSE url>>

\* the methods handleError calls on `this`: the class defines trackError,
\* saveErrorLog and shouldStopProcessing, and no logError
ErrorHandlerMethods == {"init", "ensureLogDirectory", "handleError", "categorizeError",
                        "trackError", "detectErrorPatterns", "saveErrorLog",
                        "shouldRetry", "getRetryDelay", "shouldStopProcessing",
                        "getErrorStats", "reset"}

\* variant: the run of a key is never restarted
trackErrorNoRestart(type, url) ==
  LET key == errorKey(type, url) IN
  [errorCounts |-> [errorCounts EXCEPT ![key] = @ + 1],
   consecutiveErrors |-> [consecutiveErrors EXCEPT ![key] = @ + 1],
   lastErrorKey |-> key]

\* trackError(errorInfo): the counters after the call
trackError(type, url) ==
  LET key == errorKey(type, url) IN
  [errorCounts |-> [errorCounts EXCEPT ![key] = @ + 1],
   consecutiveErrors |->
     [consecutiveErrors EXCEPT ![key] = IF lastErrorKey = key THEN @ + 1 ELSE 1],
   lastErrorKey |-> key]

\* shouldStopProcessing(errorInfo), on the counters t left by trackError
shouldStopProcessing(t, type) ==
  LET consecutiveCount == t.consecutiveErrors[t.lastErrorKey]
      totalErrors == Len(errors)
  IN \/ consecutiveCount >= maxConsecutiveErrors
     \/ totalErrors >= totalErrorThreshold
     \/ type \in {"PERMISSION_DENIED", "DATA_CORRUPTION"}

\* number of errors handed to handleError so far
TotalHandled ==
  LET RECURSIVE Sum(_)
      Sum(K) == IF K = {} THEN 0
                ELSE LET k == CHOOSE x \in K : TRUE IN errorCounts[k] + Sum(K \ {k})
  IN Sum(Keys)

\* handleError(error, context): trackError, then this.logError(errorInfo),
\* which throws a TypeError when the object has no such method; otherwise
\* the log is saved and shouldStopProcessing decides on process.exit(1)
HandleError(e, url) ==
  /\ ~exited
  /\ TotalHandled < MaxHandled
  /\ LET type == categorizeError(e)
         t == trackError(type, url) IN
     /\ errorCounts' = t.errorCounts
     /\ consecutiveErrors' = t.consecutiveErrors
     /\ lastErrorKey' = t.lastErrorKey
     /\ IF "logError" \notin ErrorHandlerMethods
          THEN /\ handled' = "TypeError"
               /\ fatal' = FALSE
               /\ UNCHANGED exited
          ELSE /\ handled' = "returned"
               /\ fatal' = shouldStopProcessing(t, type)
               /\ exited' = shouldStopProcessing(t, type)
  /\ UNCHANGED <<rlvars, callervars, obsvars, runvars, retryvars, errors, aggvars, batchvars,
                 urlvars, pdfvars, tracked>>

InitErr ==
  /\ minDelayMs = minDelayMsDefault
  /\ InitLimiter
  /\ InitCallers
  /\ maxPages = 1
  /\ maxPDFs = 1
  /\ InitRunVars
  /\ InitErrorHandler
  /\ InitAgg
  /\ InitBatch
  /\ InitUrl
  /\ InitPdf
  /\ InitRetryVars

NextErr == \E e \in HandledErrors, url \in ContextUrls : HandleError(e, url)

SpecErr == InitErr /\ [][NextErr]_vars

\* C13: whenever handling an error brings the consecutive-failure counter of
\* its (kind, URL) key to maxConsecutiveErrors, that handleError call signals
\* a fatal stop of the run.
C13_ConsecutiveFatal ==
  (/\ handled # "none"
   /\ consecutiveErrors[lastErrorKey] >= maxConsecutiveErrors) => (fatal /\ exited)

\* C14: whenever the number of errors handled in the run reaches the global
\* threshold of 50, handling that error signals a fatal stop of the run, also
\* when no key has reached the consecutive-failure threshold.
C14_TotalFatal ==
  (handled # "none" /\ TotalHandled >= totalErrorThreshold) => (fatal /\ exited)

\* ---------------------------------------------------------------------
\* CardDataAggregator (SpecAgg)
\* ---------------------------------------------------------------------

\* the texts the sources carry
Fee500 == <<"R", "s", "5", "0", "0">>
Fee500Padded == <<" ", "R", "s", "5", "0", "0", " ">>
Fee900 == <<"R", "s", "9", "0", "0">>
Premium == <<"P", "r", "e", "m", "i", "u", "m">>
LoungeAccess ==
  <<"L", "o", "u", "n", "g", "e", " ", "A", "c", "c", "e", "s", "s">>
LoungeAccessPadded ==
  <<"L", "o", "u", "n", "g", "e", " ", "A", "c", "c", "e", "s", "s", " ">>
LoungeAccessLowerPadded ==
  <<"l", "o", "u", "n", "g", "e", " ", "a", "c", "c", "e", "s", "s", " ">>
LoungeAccessLower ==
  <<"l", "o", "u", "n", "g", "e", " ", "a", "c", "c", "e", "s", "s">>
FuelWaiver == <<" ", "F", "u", "e", "l">>
Blank == <<" ", " ">>
EightVisits == <<"8">>
TermsPdf == <<"t", ".", "p", "d", "f">>
MitcPdf == <<"m", ".", "p", "d", "f">>
TermsPdfPadded == <<" ", "t", ".", "p", "d", "f", " ">>
TwoVisits == <<"2">>

\* a source that carries no field
NoData ==
  [scalar |-> [f \in ScalarFields |-> Undefined],
   array |-> [f \in ArrayFields |-> AbsentArray],
   strKey |-> [k \in StringKeys |-> Undefined],
   arrKey |-> [k \in ArrayKeys |-> AbsentArray]]

\* the parsed data of the seed page, of internal pages and of PDFs
SeedData ==
  [NoData EXCEPT !.scalar["annualFee"] = Fee500,
                 !.array["benefits"] = <<LoungeAccess>>,
                 !.strKey[<<"loungeAccess", "domestic">>] = EightVisits,
                 !.arrKey[<<"links", "pdfs">>] = <<TermsPdf>>]
PageData ==
  [NoData EXCEPT !.scalar["annualFee"] = Fee900,
                 !.scalar["cardType"] = Premium,
                 !.array["benefits"] = <<LoungeAccessLowerPadded, FuelWaiver>>,
                 !.strKey[<<"loungeAccess", "domestic">>] = TwoVisits,
                 !.strKey[<<"loungeAccess", "international">>] = TwoVisits,
                 !.arrKey[<<"links", "pdfs">>] = <<MitcPdf, TermsPdf>>]
PdfData ==
  [NoData EXCEPT !.scalar["annualFee"] = << >>,
                 !.scalar["joiningFee"] = Fee500Padded,
                 !.array["benefits"] =
                   <<LoungeAccessPadded, << >>, Blank, LoungeAccess>>,
                 !.array["rewards"] = << >>,
                 !.strKey[<<"loungeAccess", "domestic">>] = << >>,
                 !.strKey[<<"loungeAccess", "international">>] = Null,
                 !.arrKey[<<"links", "pdfs">>] =
                   <<TermsPdfPadded, Blank, << >>, MitcPdf>>]
SparseData ==
  [NoData EXCEPT !.scalar["annualFee"] = Null,
                 !.scalar["joiningFee"] = Fee900,
                 !.array["benefits"] = <<FuelWaiver, LoungeAccessPadded>>,
                 !.arrKey[<<"links", "pdfs">>] = << >>]

\* the arguments of the addSourceData calls
SourcePool ==
  {[data |-> SeedData, sourceType |-> "html", url |-> "seed"],
   [data |-> PageData, sourceType |-> "html", url |-> "page"],
   [data |-> PdfData, sourceType |-> "pdf", url |-> "pdf"],
   [data |-> SparseData, sourceType |-> "pdf", url |-> "pdf2"]}

\* a scalar a JavaScript condition takes as true: not undefined, null or ''
truthy(v) == v \notin {Undefined, Null, << >>}

\* mergeData: the fields the forEach over stringFields visits
stringFields == {"cardName", "annualFee", "joiningFee", "interestRate",
                 "foreignCurrencyMarkup"}

\* mergeData: the fields the forEach over arrayFields visits
arrayFields == {"rewards", "benefits", "eligibilityCriteria",
                "documentsRequired", "otherCharges", "welcomeBenefits",
                "milestoneBenefits", "redemptionOptions"}

\* the forEach over the items of a source array, pushing every item
RECURSIVE mergeItemsNoIncludes(_, _)
mergeItemsNoIncludes(acc, items) ==
  IF items = << >> THEN acc
  ELSE LET item == Head(items)
       IN  mergeItemsNoIncludes(
             IF item # << >> /\ trim(item) # << >>
               THEN Append(acc, trim(item))
               ELSE acc,
             Tail(items))

\* the forEach over the items of a source array:
\* if (item && item.trim() !== '' && !this.cardData[field].includes(item.trim()))
\*   this.cardData[field].push(item.trim())
RECURSIVE mergeItems(_, _)
mergeItems(acc, items) ==
  IF items = << >> THEN acc
  ELSE LET item == Head(items)
       IN  mergeItems(
             IF item # << >> /\ trim(item) # << >>
                /\ ~includes(acc, trim(item))
               THEN Append(acc, trim(item))
               ELSE acc,
             Tail(items))

\* variant: a later non-empty value replaces the value of the key
mergeKeyOverwriting(current, value) ==
  IF truthy(value) THEN value ELSE current

\* mergeObjectField, a key whose source value is no array:
\* if (sourceData[key] !== null && sourceData[key] !== undefined &&
\*     sourceData[key] !== '')
\*   if (!this.cardData[fieldName][key]) this.cardData[fieldName][key] = ...
mergeKey(current, value) ==
  IF truthy(value) /\ ~truthy(current) THEN value ELSE current

\* mergeData(sourceData), with its four mergeObjectField calls
mergeData(cd, sourceData) ==
  [scalar |->
     [f \in ScalarFields |->
        IF /\ f \in stringFields
           /\ truthy(sourceData.scalar[f])
           /\ ~truthy(cd.scalar[f])
          THEN sourceData.scalar[f]
          ELSE cd.scalar[f]],
   array |->
     [f \in ArrayFields |->
        IF /\ f \in arrayFields
           /\ sourceData.array[f] # AbsentArray
           /\ Len(sourceData.array[f]) > 0
          THEN mergeItems(cd.array[f], sourceData.array[f])
          ELSE cd.array[f]],
   strKey |->
     [k \in StringKeys |->
        mergeKey(cd.strKey[k], sourceData.strKey[k])],
   arrKey |->
     [k \in ArrayKeys |->
        IF sourceData.arrKey[k] # AbsentArray
          THEN mergeItems(IF cd.arrKey[k] = AbsentArray THEN << >>
                          ELSE cd.arrKey[k],
                          sourceData.arrKey[k])
          ELSE cd.arrKey[k]]]

\* .filter((item, index, array) => array.indexOf(item) === index)
RECURSIVE firstOccurrences(_, _)
firstOccurrences(kept, arr) ==
  IF arr = << >> THEN kept
  ELSE firstOccurrences(IF includes(kept, Head(arr)) THEN kept
                        ELSE Append(kept, Head(arr)),
                        Tail(arr))

\* .map(item => item.trim())
mapTrim(arr) == [k \in DOMAIN arr |-> trim(arr[k])]

\* cleanData()
cleanData(cd) ==
  [scalar |->
     [f \in ScalarFields |->
        IF f \in stringFields /\ truthy(cd.scalar[f])
          THEN trim(cd.scalar[f])
          ELSE cd.scalar[f]],
   array |->
     [f \in ArrayFields |->
        IF f \in arrayFields
          THEN firstOccurrences(<< >>,
                 mapTrim(SelectSeq(cd.array[f],
                   LAMBDA item : item # << >> /\ trim(item) # << >>)))
          ELSE cd.array[f]],
   strKey |-> cd.strKey,
   arrKey |->
     [k \in ArrayKeys |->
        IF k = <<"links", "pdfs">> /\ cd.arrKey[k] # AbsentArray
          THEN firstOccurrences(<< >>, cd.arrKey[k])
          ELSE cd.arrKey[k]]]

\* Object.keys(value).length of an object field
keyCount(cd, f) ==
  Cardinality({k \in StringKeys : k[1] = f /\ cd.strKey[k] # Undefined})
  + Cardinality({k \in ArrayKeys : k[1] = f /\ cd.arrKey[k] # AbsentArray})

\* getCompletenessReport(): isFilled of one field
isFilled(cd, f) ==
  IF f \in ArrayFields THEN Len(cd.array[f]) > 0
  ELSE IF f \in ObjectFields THEN keyCount(cd, f) > 0
  ELSE truthy(cd.scalar[f])

\* JavaScript numbers are IEEE 754 doubles.  A positive double is kept as
\* its 53 significand bits (most significant first, the first is 1) and its
\* exponent: the value is 1.b2...b53 (binary) * 2^e.  Zero has no bits.
SignificandBits == 53
Zero == [m |-> << >>, e |-> 0]

\* 2^k for k >= 0
RECURSIVE pow2(_)
pow2(k) == IF k = 0 THEN 1 ELSE 2 * pow2(k - 1)

\* Arithmetic on the bits goes through limbs of 14 bits, most significant
\* first.
LimbBits == 14

\* the natural number with the given bits
RECURSIVE bitsToNat(_)
bitsToNat(bits) ==
  IF bits = << >> THEN 0
  ELSE 2 * bitsToNat(SubSeq(bits, 1, Len(bits) - 1)) + bits[Len(bits)]

\* the LimbBits bits of a limb
natToBits(n) ==
  [k \in 1..LimbBits |-> (n \div pow2(LimbBits - k)) % 2]

\* the limbs of a sequence of bits
limbsOf(bits) ==
  LET count == (Len(bits) + LimbBits - 1) \div LimbBits
      pad == count * LimbBits - Len(bits)
      padded == [k \in 1..pad |-> 0] \o bits
  IN  [j \in 1..count |->
         bitsToNat(SubSeq(padded, LimbBits * (j - 1) + 1, LimbBits * j))]

\* the bits of a sequence of limbs, without leading zeros
bitsOf(limbs) ==
  LET all == [k \in 1..(LimbBits * Len(limbs)) |->
                natToBits(limbs[((k - 1) \div LimbBits) + 1])
                  [((k - 1) % LimbBits) + 1]]
      ones == {k \in DOMAIN all : all[k] = 1}
  IN  IF ones = {} THEN << >>
      ELSE SubSeq(all, CHOOSE k \in ones : \A j \in ones : k <= j, Len(all))

\* limbs * c + carry, for a small natural c
RECURSIVE mulLimbs(_, _, _)
mulLimbs(limbs, c, carry) ==
  IF limbs = << >> THEN (IF carry = 0 THEN << >> ELSE <<carry>>)
  ELSE LET v == limbs[Len(limbs)] * c + carry
       IN  Append(mulLimbs(SubSeq(limbs, 1, Len(limbs) - 1), c,
                           v \div pow2(LimbBits)),
                  v % pow2(LimbBits))

\* bits * c + carry, for a small natural c
mulBits(bits, c, carry) == bitsOf(mulLimbs(limbsOf(bits), c, carry))

\* bits + 1
incBits(bits) == mulBits(bits, 1, 1)

\* round to nearest, ties to even: bits (the first is 1, at least 53) are
\* the exact value 1.b2b3... * 2^e
round(bits, e) ==
  LET kept == SubSeq(bits, 1, SignificandBits)
      rest == SubSeq(bits, SignificandBits + 1, Len(bits))
      more == \E k \in 2..Len(rest) : rest[k] = 1
      up == /\ rest # << >>
            /\ rest[1] = 1
            /\ (more \/ kept[SignificandBits] = 1)
      next == incBits(kept)
  IN  IF ~up THEN [m |-> kept, e |-> e]
      ELSE IF Len(next) > SignificandBits
             THEN [m |-> SubSeq(next, 1, SignificandBits), e |-> e + 1]
             ELSE [m |-> next, e |-> e]

\* the first k bits of r / d for d <= r < 2 * d, followed by one bit that
\* tells whether a remainder is left
RECURSIVE divBits(_, _, _)
divBits(r, d, k) ==
  IF k = 0 THEN <<IF r # 0 THEN 1 ELSE 0>>
  ELSE LET bit == IF r >= d THEN 1 ELSE 0
       IN  <<bit>> \o divBits(2 * (r - bit * d), d, k - 1)

\* the double n / d of two small naturals, d > 0
divide(n, d) ==
  IF n = 0 THEN Zero
  ELSE LET e == CHOOSE x \in -12..12 :
                  IF x >= 0
                    THEN d * pow2(x) <= n /\ n < d * pow2(x + 1)
                    ELSE d <= n * pow2(-x) /\ n * pow2(-x) < 2 * d
           r == IF e >= 0 THEN n ELSE n * pow2(-e)
           dd == IF e >= 0 THEN d * pow2(e) ELSE d
       IN  round(divBits(r, dd, SignificandBits + 1), e)

\* the double x * c of a double and a small natural
multiply(x, c) ==
  IF x = Zero \/ c = 0 THEN Zero
  ELSE LET product == mulBits(x.m, c, 0)
       IN  round(product, x.e + Len(product) - SignificandBits)

\* getCompletenessReport()
getCompletenessReport(cd) ==
  LET filled == {f \in Fields : isFilled(cd, f)}
  IN  [totalFields |-> Cardinality(Fields),
       filledFields |-> Cardinality(filled),
       emptyFields |-> Cardinality(Fields \ filled),
       fieldDetails |->
         [f \in Fields |-> IF f \in filled THEN "filled" ELSE "empty"],
       completenessPercentage |->
         multiply(divide(Cardinality(filled), Cardinality(Fields)), 100)]

\* addSourceData(data, sourceType, url)
AddSourceData(src) ==
  /\ Len(aggSources) < MaxSources
  /\ aggSources' = Append(aggSources, src)
  /\ cardData' = mergeData(cardData, src.data)
  /\ reports' = << >>
  /\ UNCHANGED <<rlvars, callervars, obsvars, runvars, retryvars, ehvars,
                 batchvars,
                 urlvars, pdfvars>>

\* cleanData()
CleanData ==
  /\ cardData' = cleanData(cardData)
  /\ reports' = << >>
  /\ UNCHANGED <<rlvars, callervars, obsvars, runvars, retryvars, ehvars,
                 aggSources, batchvars,
                 urlvars, pdfvars>>

\* reset()
Reset ==
  /\ cardData' = createEmptyCardData
  /\ aggSources' = << >>
  /\ reports' = << >>
  /\ UNCHANGED <<rlvars, callervars, obsvars, runvars, retryvars, ehvars,
                 batchvars,
                 urlvars, pdfvars>>

\* getCompletenessReport() that also cleans the record
GetCompletenessReportCleaning ==
  /\ Len(reports) < MaxReports
  /\ reports' = Append(reports, getCompletenessReport(cardData))
  /\ cardData' = cleanData(cardData)
  /\ UNCHANGED <<rlvars, callervars, obsvars, runvars, retryvars, ehvars,
                 aggSources, batchvars,
                 urlvars, pdfvars>>

\* getCompletenessReport()
GetCompletenessReport ==
  /\ Len(reports) < MaxReports
  /\ reports' = Append(reports, getCompletenessReport(cardData))
  /\ UNCHANGED <<rlvars, callervars, obsvars, runvars, retryvars, ehvars,
                 cardData, aggSources, batchvars,
                 urlvars, pdfvars>>

InitAggSpec ==
  /\ minDelayMs = minDelayMsDefault
  /\ InitLimiter
  /\ InitCallers
  /\ maxPages = 1
  /\ maxPDFs = 1
  /\ InitRunVars
  /\ InitErrorHandler
  /\ InitRetryVars
  /\ InitAgg
  /\ InitBatch
  /\ InitUrl
  /\ InitPdf

NextAgg ==
  \/ \E src \in SourcePool : AddSourceData(src)
  \/ CleanData
  \/ Reset
  \/ GetCompletenessReport

SpecAgg == InitAggSpec /\ [][NextAgg]_vars

\* ------------------------------------------------------------- claims

\* the source an addSourceData step has appended
Added == aggSources'[Len(aggSources')]
AddStep == Len(aggSources') = Len(aggSources) + 1

\* C16: every addSourceData call leaves each scalar field of the record
\* holding the first non-empty value in arrival order: a field that holds a
\* non-empty value keeps it, and an empty field takes the value of the source
\* when that value is non-empty.
C16_FirstNonEmptyWins ==
  [][AddStep =>
       \A f \in ScalarFields :
         cardData'.scalar[f] =
           IF truthy(cardData.scalar[f]) THEN cardData.scalar[f]
           ELSE IF truthy(Added.data.scalar[f]) THEN Added.data.scalar[f]
           ELSE cardData.scalar[f]]_vars

\* the entries the sources offered for an array field, in arrival order
RECURSIVE offeredEntries(_, _)
offeredEntries(srcs, f) ==
  IF srcs = << >> THEN << >>
  ELSE (IF Head(srcs).data.array[f] = AbsentArray THEN << >>
        ELSE Head(srcs).data.array[f]) \o offeredEntries(Tail(srcs), f)

\* the position at which the trimmed value e was first offered
firstSeen(offered, e) ==
  CHOOSE k \in DOMAIN offered :
    /\ trim(offered[k]) = e
    /\ \A j \in 1..(k - 1) : trim(offered[j]) # e

\* C17: each collection field of the record holds no two equal entries, only
\* entries that are non-empty and carry no surrounding whitespace, exactly
\* the trimmed non-empty entries the sources offered (compared
\* case-sensitively), and holds them in the order they were first offered.
C17_CollectionUnion ==
  \A f \in ArrayFields :
    LET merged == cardData.array[f]
        offered == offeredEntries(aggSources, f)
    IN  /\ \A j, k \in DOMAIN merged : j # k => merged[j] # merged[k]
        /\ \A k \in DOMAIN merged :
             /\ merged[k] # << >>
             /\ Head(merged[k]) # " "
             /\ merged[k][Len(merged[k])] # " "
        /\ {merged[k] : k \in DOMAIN merged}
             = {trim(offered[k]) : k \in DOMAIN offered} \ {<< >>}
        /\ \A j, k \in DOMAIN merged :
             j < k => firstSeen(offered, merged[j]) < firstSeen(offered, merged[k])

\* three sources have offered seven benefits, among them repeated, padded and
\* empty ones, and three are kept
C17_Witness ==
  /\ Len(aggSources) = 3
  /\ Len(offeredEntries(aggSources, "benefits")) = 7
  /\ Len(cardData.array["benefits"]) = 3

\* C18 as stated: when the sources offered both "Lounge Access" and
\* "lounge access " as benefits, the record holds exactly one of the two
\* spellings.
C18_LoungeAccessOnce_Original ==
  LET merged == cardData.array["benefits"]
      offered == offeredEntries(aggSources, "benefits")
  IN  (includes(offered, LoungeAccess)
       /\ includes(offered, LoungeAccessLowerPadded))
      => Cardinality({k \in DOMAIN merged :
                        merged[k] \in {LoungeAccess, LoungeAccessLower}}) = 1

\* C18: entries that differ only in surrounding whitespace are one entry:
\* when the sources offered both "Lounge Access" and "Lounge Access ", the
\* record holds "Lounge Access" exactly once and never the padded form.
\* Entries that differ in case are different entries: when the sources
\* offered "Lounge Access" and "lounge access ", the record holds both
\* "Lounge Access" and "lounge access".
C18_LoungeAccessOnce ==
  LET merged == cardData.array["benefits"]
      offered == offeredEntries(aggSources, "benefits")
  IN  /\ (includes(offered, LoungeAccess)
          /\ includes(offered, LoungeAccessPadded))
         => /\ Cardinality({k \in DOMAIN merged : merged[k] = LoungeAccess}) = 1
            /\ ~includes(merged, LoungeAccessPadded)
      /\ (includes(offered, LoungeAccess)
          /\ includes(offered, LoungeAccessLowerPadded))
         => /\ includes(merged, LoungeAccess)
            /\ includes(merged, LoungeAccessLower)

\* the three spellings have been offered and two entries are kept for them
C18_Witness ==
  LET merged == cardData.array["benefits"]
      offered == offeredEntries(aggSources, "benefits")
  IN  /\ includes(offered, LoungeAccess)
      /\ includes(offered, LoungeAccessPadded)
      /\ includes(offered, LoungeAccessLowerPadded)
      /\ includes(merged, LoungeAccess)
      /\ includes(merged, LoungeAccessLower)

\* C20: a getCompletenessReport call leaves the record and the list of
\* sources as they were, and the reports returned by calls with no mutation
\* of the record in between are equal.
C20_ReportPure ==
  /\ [](\A j, k \in DOMAIN reports : reports[j] = reports[k])
  /\ [][Len(reports') > Len(reports)
          => (cardData' = cardData /\ aggSources' = aggSources)]_vars

\* two reports have been returned for a record cleanData would change
C20_Witness ==
  /\ Len(reports) = 2
  /\ cardData.scalar["joiningFee"] = Fee500Padded
  /\ reports[2].filledFields >= 2

\* ---------------------------------------------------------------------
\* HTMLCrawler.crawlMultiplePages (SpecBatch)
\* ---------------------------------------------------------------------

\* urls is the list of the URLs 1..NumUrls; the values of `concurrency`
Concurrencies == 1..3

\* urls.slice(i, i + concurrency), as the indexes of the batch starting at b
batch(b, c) == {u \in 1..NumUrls : b <= u /\ u < b + c}

\* how a crawlPage call settles: a page, null (not relevant) or an error
CrawlOutcomes == {"page", "null", "thrown"}

\* batchResults.filter((r) => r !== null), in the order of `batch`
RECURSIVE batchPages(_, _, _)
batchPages(st, u, last) ==
  IF u > last THEN << >>
  ELSE (IF st[u] = "page" THEN <<u>> ELSE << >>) \o batchPages(st, u + 1, last)

\* loop head: batch.map starts one crawlPage call per URL of the batch
StartBatch ==
  /\ bpc \in {"idle", "sleep"}
  /\ bpc' = "batch"
  /\ crawl' = [u \in 1..NumUrls |->
                 IF u \in batch(bi, concurrency) THEN "pending" ELSE crawl[u]]
  /\ UNCHANGED <<rlvars, callervars, obsvars, runvars, retryvars, ehvars,
                 aggvars, concurrency, bi, completed, results, batchErrors,
                 urlvars, pdfvars>>

\* one crawlPage call settles; the catch of a thrown one pushes to errors
\* and turns it into null
Settle(u, o) ==
  /\ bpc = "batch"
  /\ crawl[u] = "pending"
  /\ crawl' = [crawl EXCEPT ![u] = o]
  /\ completed' = Append(completed, u)
  /\ batchErrors' = IF o = "thrown" THEN Append(batchErrors, u) ELSE batchErrors
  /\ UNCHANGED <<rlvars, callervars, obsvars, runvars, retryvars, ehvars,
                 aggvars, concurrency, bpc, bi, results,
                 urlvars, pdfvars>>

\* variant: the batch is joined as soon as one of its crawls has settled
JoinEarly ==
  /\ bpc = "batch"
  /\ \E u \in batch(bi, concurrency) : crawl[u] # "pending"
  /\ results' = results \o
                  batchPages(crawl, bi, Min(bi + concurrency - 1, NumUrls))
  /\ bi' = bi + concurrency
  /\ bpc' = IF (bi - 1) + concurrency < NumUrls THEN "sleep" ELSE "done"
  /\ UNCHANGED <<rlvars, callervars, obsvars, runvars, retryvars, ehvars,
                 aggvars, concurrency, crawl, completed, batchErrors,
                 urlvars, pdfvars>>

\* Promise.all(batchPromises) resolves: results.push(...), then sleep(1000)
\* when URLs are left, the return otherwise
Join ==
  /\ bpc = "batch"
  /\ \A u \in batch(bi, concurrency) : crawl[u] # "pending"
  /\ results' = results \o
                  batchPages(crawl, bi, Min(bi + concurrency - 1, NumUrls))
  /\ bi' = bi + concurrency
  /\ bpc' = IF (bi - 1) + concurrency < NumUrls THEN "sleep" ELSE "done"
  /\ UNCHANGED <<rlvars, callervars, obsvars, runvars, retryvars, ehvars,
                 aggvars, concurrency, crawl, completed, batchErrors,
                 urlvars, pdfvars>>

InitBatchSpec ==
  /\ minDelayMs = minDelayMsDefault
  /\ InitLimiter
  /\ InitCallers
  /\ maxPages = 1
  /\ maxPDFs = 1
  /\ InitRunVars
  /\ InitErrorHandler
  /\ InitRetryVars
  /\ InitAgg
  /\ InitUrl
  /\ InitPdf
  /\ concurrency \in Concurrencies
  /\ bpc = "idle"
  /\ bi = 1
  /\ crawl = [u \in 1..NumUrls |-> "idle"]
  /\ completed = << >>
  /\ results = << >>
  /\ batchErrors = << >>

NextBatch ==
  \/ StartBatch
  \/ \E u \in 1..NumUrls, o \in CrawlOutcomes : Settle(u, o)
  \/ Join

SpecBatch == InitBatchSpec /\ [][NextBatch]_vars

\* the pages among the crawls settled, in the order they settled
completedPages == SelectSeq(completed, LAMBDA u : crawl[u] = "page")

\* C19: once a batch of concurrent crawls has been joined, the results are
\* ordered by completion: the page whose crawl settled first comes first.
C19_CompletionOrder ==
  bpc \in {"sleep", "done"} => results = completedPages

\* ---------------------------------------------------------------------
\* completeness report
\* ---------------------------------------------------------------------

\* the top-level fields of the record
recordFields(cd) ==
  DOMAIN cd.scalar \cup DOMAIN cd.array
    \cup {k[1] : k \in DOMAIN cd.strKey \cup DOMAIN cd.arrKey}

\* a top-level field of the record that is non-empty: a collection of
\* length > 0, an object with at least one key, a scalar that is neither
\* null nor the empty string
nonEmpty(cd, f) ==
  IF f \in DOMAIN cd.array THEN cd.array[f] # << >>
  ELSE IF f \in DOMAIN cd.scalar
         THEN cd.scalar[f] # Null /\ cd.scalar[f] # Undefined
              /\ cd.scalar[f] # << >>
         ELSE \/ \E k \in DOMAIN cd.strKey :
                   k[1] = f /\ cd.strKey[k] # Undefined
              \/ \E k \in DOMAIN cd.arrKey :
                   k[1] = f /\ cd.arrKey[k] # AbsentArray

\* the counts of a report are those of the record
countsRight(r) ==
  /\ r.totalFields = Cardinality(recordFields(cardData))
  /\ r.filledFields =
       Cardinality({f \in recordFields(cardData) : nonEmpty(cardData, f)})
  /\ r.filledFields + r.emptyFields = r.totalFields

\* C21: every report returned for the record has totalFields = the number
\* of top-level fields, filledFields = the number of non-empty ones,
\* filledFields + emptyFields = totalFields, and completenessPercentage =
\* the number 100 * filledFields / totalFields.
C21_Completeness ==
  \A k \in DOMAIN reports :
    /\ countsRight(reports[k])
    /\ reports[k].completenessPercentage
         = divide(100 * reports[k].filledFields, reports[k].totalFields)

\* the page whose fetch settled scored below the threshold
lowRelevance == relevanceScore \in 0..(relevanceThreshold - 1)

\* C27: a page that scores below 3 is treated as not fetched: its crawlPage
\* settles with no result, the step that follows adds no source and changes
\* no link list, and the score of a page is computed once, in the step that
\* settles its fetch.
C27_RelevanceGate ==
  [][/\ (relevanceScore' # relevanceScore /\ relevanceScore' # NoScore)
          => pc = "request" /\ pc' = "settled" /\ relevanceScore = NoScore
     /\ (pc' = "settled" /\ lowRelevance') => outcome' = "null"
     /\ (pc = "settled" /\ lowRelevance)
          => /\ sources' = sources
             /\ internalLinks' = internalLinks
             /\ pdfLinks' = pdfLinks]_vars

\* a page of the page loop settled with a score below the threshold while
\* another page is still to come
C27_Witness ==
  /\ phase = "Pages" /\ pc = "settled"
  /\ relevanceScore = 2 /\ outcome = "null"
  /\ i < Len(pagesToCrawl)

\* C28: when the existence probe of a PDF is negative, parsePDF starts no
\* download, raises no error and returns null, and the PDF loop then adds
\* no source and moves on to the next PDF.
C28_NegativeProbe ==
  [][/\ (pc = "pdfHead" /\ pdfExists' = "no")
          => /\ net' = net
             /\ pc' = "settled"
             /\ outcome' = "null"
             /\ lastError' = lastError
     /\ (pc = "settled" /\ phase = "PDFs" /\ pdfExists = "no")
          => /\ sources' = sources
             /\ phase' = "PDFs" /\ pc' = "start" /\ i' = i + 1]_vars

\* the probe of a PDF was negative while another PDF is still to come
C28_Witness ==
  /\ phase = "PDFs" /\ pc = "settled" /\ pdfExists = "no"
  /\ net.kind = "HEAD"
  /\ i < Len(pdfsToProcess)

\* ------------------------------------------- SpecPdf: PDFParser.parsePDF

\* this.maxSizeBytes = options.maxSizeBytes || 10 * 1024 * 1024
maxSizeBytes == 10485760
\* bytes pipeline moves from the response to the file in one step
ChunkBytes == 4194304
\* the sizes of the bodies the server sends
Bodies == {0, 100, maxSizeBytes, maxSizeBytes + 1}
\* how axios(axiosConfig) of downloadFile settles
GetOutcomes == {"200", "404", "500", "timeout"}
\* the PDFs parsePDF is called for
PdfPool == {l \in LinkPool : l.isPDF}

\* variant: the file stays
deleteFileKept(fs, path) == fs

\* fs.unlink(filePath) that worked, or hit ENOENT
deleteFile(fs, path) == [fs EXCEPT ![path] = NoFile]

returnNull == [returned |-> "null", filePath |-> NoPath, fileSize |-> NoFile]
rejected == [returned |-> "throw", filePath |-> NoPath, fileSize |-> NoFile]

\* parser.parsePDF(pdfUrl, {keepFile, ...}) is called; cleanPDFUrl and
\* validatePDFUrl pass and checkPDFExists is awaited
ParsePDF(l, keepFile) ==
  /\ ppc = "idle"
  /\ pdfUrl' = l
  /\ pdfOptions' = [keepFile |-> keepFile]
  /\ pdfExists' = "none"
  /\ ppc' = "head"
  /\ UNCHANGED <<rlvars, callervars, obsvars, runvars, retryvars, ehvars,
                 aggvars, batchvars, urlvars,
                 tryIndex, body, files, parsedBytes, pdfResult>>

\* checkPDFExists settles: `if (!exists) return null`, else downloadWithRetry
\* starts downloadFile for the first of urlsToTry
CheckPDFExists(exists) ==
  /\ ppc = "head"
  /\ pdfExists' = IF exists THEN "yes" ELSE "no"
  /\ IF exists
       THEN /\ tryIndex' = 1
            /\ ppc' = "get"
            /\ UNCHANGED pdfResult
       ELSE /\ pdfResult' = returnNull
            /\ ppc' = "returned"
            /\ UNCHANGED tryIndex
  /\ UNCHANGED <<rlvars, callervars, obsvars, runvars, retryvars, ehvars,
                 aggvars, batchvars, urlvars,
                 pdfUrl, pdfOptions, body, files, parsedBytes>>

\* the outer catch of parsePDF: deleteFile(filePath), then return null; a
\* deleteFile that throws there makes parsePDF reject
outerCatch(fs, unlinked) ==
  IF unlinked \/ fs[filePath] = NoFile
    THEN /\ files' = deleteFile(fs, filePath)
         /\ pdfResult' = returnNull
         /\ ppc' = "returned"
    ELSE /\ files' = fs
         /\ pdfResult' = rejected
         /\ ppc' = "thrown"

\* downloadFile: axios(axiosConfig) settles.  On 200 createWriteStream opens
\* the file and pipeline starts; otherwise the catch of downloadFile unlinks
\* and rethrows: a 404 moves downloadWithRetry to the next URL or, after the
\* last, makes parsePDF return null; any other error reaches the outer catch
Get(o, size) ==
  /\ ppc = "get"
  /\ CASE o = "200" ->
            /\ body' = size
            /\ files' = [files EXCEPT ![filePath] = 0]
            /\ ppc' = "stream"
            /\ UNCHANGED <<tryIndex, pdfResult>>
       [] o = "404" /\ tryIndex < urlsToTry(pdfUrl) ->
            /\ tryIndex' = tryIndex + 1
            /\ UNCHANGED <<ppc, body, files, pdfResult>>
       [] o = "404" /\ tryIndex >= urlsToTry(pdfUrl) ->
            /\ pdfResult' = returnNull
            /\ ppc' = "returned"
            /\ UNCHANGED <<tryIndex, body, files>>
       [] OTHER ->
            /\ outerCatch(files, TRUE)
            /\ UNCHANGED <<tryIndex, body>>
  /\ UNCHANGED <<rlvars, callervars, obsvars, runvars, retryvars, ehvars,
                 aggvars, batchvars, urlvars,
                 pdfExists, pdfUrl, pdfOptions, parsedBytes>>

\* pipeline(response.data, writer) moves the next chunk of the body into the
\* file; options.maxSize is not read
Pipe ==
  /\ ppc = "stream"
  /\ files[filePath] < body
  /\ files' = [files EXCEPT ![filePath] = Min(body, @ + ChunkBytes)]
  /\ UNCHANGED <<rlvars, callervars, obsvars, runvars, retryvars, ehvars,
                 aggvars, batchvars, urlvars,
                 pdfExists, pdfUrl, pdfOptions, ppc, tryIndex, body,
                 parsedBytes, pdfResult>>

\* pipeline rejects (the connection broke, the timeout fired): the catch of
\* downloadFile tries fs.unlink and rethrows, downloadWithRetry breaks, the
\* outer catch of parsePDF runs
PipeError(unlinked, unlinkedAgain) ==
  /\ ppc = "stream"
  /\ files[filePath] < body
  /\ outerCatch(IF unlinked THEN deleteFile(files, filePath) ELSE files,
                unlinkedAgain)
  /\ UNCHANGED <<rlvars, callervars, obsvars, runvars, retryvars, ehvars,
                 aggvars, batchvars, urlvars,
                 pdfExists, pdfUrl, pdfOptions, tryIndex, body, parsedBytes>>

\* pipeline resolves: downloadFile returns {path, size: stats.size} and
\* parsePDFFile is awaited
PipeEnd ==
  /\ ppc = "stream"
  /\ files[filePath] = body
  /\ ppc' = "parse"
  /\ UNCHANGED <<rlvars, callervars, obsvars, runvars, retryvars, ehvars,
                 aggvars, batchvars, urlvars,
                 pdfExists, pdfUrl, pdfOptions, tryIndex, body, files,
                 parsedBytes, pdfResult>>

\* parsePDFFile(filePath) settles.  An empty file throws before pdfParse; a
\* buffer pdfParse yields no text for throws too; both reach the outer
\* catch.  With the text: the result carries filePath only when keepFile,
\* and `if (!keepFile) await this.deleteFile(filePath)`, whose error also
\* reaches the outer catch
ParsePDFFile(parsed, unlinked, unlinkedAgain) ==
  /\ ppc = "parse"
  /\ parsedBytes' = IF files[filePath] = 0 THEN parsedBytes ELSE files[filePath]
  /\ IF files[filePath] = 0 \/ ~parsed
       THEN outerCatch(files, unlinked)
       ELSE IF pdfOptions.keepFile
              THEN /\ pdfResult' = [returned |-> "result", filePath |-> filePath,
                                    fileSize |-> files[filePath]]
                   /\ ppc' = "returned"
                   /\ UNCHANGED files
              ELSE IF unlinked
                     THEN /\ files' = deleteFile(files, filePath)
                          /\ pdfResult' = [returned |-> "result",
                                           filePath |-> NoPath,
                                           fileSize |-> files[filePath]]
                          /\ ppc' = "returned"
                     ELSE outerCatch(files, unlinkedAgain)
  /\ UNCHANGED <<rlvars, callervars, obsvars, runvars, retryvars, ehvars,
                 aggvars, batchvars, urlvars,
                 pdfExists, pdfUrl, pdfOptions, tryIndex, body>>

InitPdfSpec ==
  /\ minDelayMs = minDelayMsDefault
  /\ InitLimiter
  /\ InitCallers
  /\ maxPages = 1
  /\ maxPDFs = 1
  /\ InitRunVars
  /\ InitErrorHandler
  /\ InitRetryVars
  /\ InitAgg
  /\ InitBatch
  /\ InitUrl
  /\ InitPdf

NextPdf ==
  \/ \E l \in PdfPool, keepFile \in BOOLEAN : ParsePDF(l, keepFile)
  \/ \E exists \in BOOLEAN : CheckPDFExists(exists)
  \/ \E o \in GetOutcomes, size \in Bodies : Get(o, size)
  \/ Pipe
  \/ \E unlinked, unlinkedAgain \in BOOLEAN : PipeError(unlinked, unlinkedAgain)
  \/ PipeEnd
  \/ \E parsed, unlinked, unlinkedAgain \in BOOLEAN :
       ParsePDFFile(parsed, unlinked, unlinkedAgain)

SpecPdf == InitPdfSpec /\ [][NextPdf]_vars

\* parsePDF returned the text it extracted
extracted == ppc = "returned" /\ pdfResult.returned = "result"

\* C29: once parsePDF has returned after a successful text extraction, the
\* downloaded file exists and its path is reported exactly when keepFile
\* was set; by default the file is gone and no path is reported.
C29_FileRemoved ==
  extracted =>
    /\ (files[filePath] # NoFile) = pdfOptions.keepFile
    /\ (pdfResult.filePath # NoPath) = pdfOptions.keepFile
    /\ pdfOptions.keepFile => pdfResult.filePath = filePath

\* parsePDF returned the text of a file it downloaded, without keepFile
C29_Witness ==
  /\ extracted
  /\ ~pdfOptions.keepFile
  /\ parsedBytes = 100
  /\ files[filePath] = NoFile

\* C30: a body larger than maxSizeBytes is never completely written to
\* the file, never handed to pdfParse, and yields no result.
C30_SizeLimit ==
  /\ files[filePath] <= maxSizeBytes
  /\ parsedBytes <= maxSizeBytes
  /\ (ppc = "returned" /\ body > maxSizeBytes) => pdfResult.returned # "result"

\* ------------------------------------------- strings and URLs
\* A string is the sequence of its characters.

\* String.prototype.includes
contains(s, pat) ==
  \E k \in 1..(Len(s) - Len(pat) + 1) : SubSeq(s, k, k + Len(pat) - 1) = pat

\* String.prototype.indexOf(pat, from), counted from 1; 0 when pat is absent
indexOf(s, pat, from) ==
  LET hits == {k \in from..(Len(s) - Len(pat) + 1) :
                 SubSeq(s, k, k + Len(pat) - 1) = pat}
  IN  IF hits = {} THEN 0 ELSE CHOOSE k \in hits : \A j \in hits : k <= j

\* String.prototype.startsWith and endsWith
startsWith(s, pat) == Len(pat) <= Len(s) /\ SubSeq(s, 1, Len(pat)) = pat
endsWith(s, pat) ==
  Len(pat) <= Len(s) /\ SubSeq(s, Len(s) - Len(pat) + 1, Len(s)) = pat

\* the rest of s from position `from`
rest(s, from) == SubSeq(s, from, Len(s))

\* the first position at or after `from` whose character is in (isIn) or
\* outside (~isIn) the set chars; Len(s) + 1 when there is none
firstAt(s, from, chars, isIn) ==
  LET hits == {k \in from..Len(s) : (s[k] \in chars) = isIn}
  IN  IF hits = {} THEN Len(s) + 1
      ELSE CHOOSE k \in hits : \A j \in hits : k <= j

RECURSIVE replaceFrom(_, _, _, _)
replaceFrom(s, pat, by, from) ==
  LET k == indexOf(s, pat, from)
  IN  IF k = 0 THEN rest(s, from)
      ELSE SubSeq(s, from, k - 1) \o by \o replaceFrom(s, pat, by,
          k + Len(pat))

\* s.replace(/pat/g, by) for a pattern that is a literal text
replaceAll(s, pat, by) == replaceFrom(s, pat, by, 1)

UpperCase == <<"A", "B", "C", "D", "E", "F", "G", "H", "I", "J", "K", "L",
    "M", "N", "O", "P", "Q", "R", "S", "T", "U", "V", "W", "X", "Y", "Z">>
LowerCase == <<"a", "b", "c", "d", "e", "f", "g", "h", "i", "j", "k", "l",
    "m", "n", "o", "p", "q", "r", "s", "t", "u", "v", "w", "x", "y", "z">>
Letters == {UpperCase[k] : k \in 1..26} \cup {LowerCase[k] : k \in 1..26}
Digits == {"0", "1", "2", "3", "4", "5", "6", "7", "8", "9"}
lower(c) ==
  IF \E k \in 1..26 : UpperCase[k] = c
    THEN LowerCase[CHOOSE k \in 1..26 : UpperCase[k] = c]
    ELSE c

\* String.prototype.toLowerCase
toLowerCase(s) == [k \in 1..Len(s) |-> lower(s[k])]

\* /pat/i.test(s) for a pattern that is a literal text
containsI(s, pat) == contains(toLowerCase(s), toLowerCase(pat))

\* the characters \s matches
Whitespace == {" ", "\t", "\n", "\r"}

RECURSIVE encodeSpaces(_, _)
encodeSpaces(s, from) ==
  LET k == firstAt(s, from, Whitespace, TRUE)
      e == firstAt(s, k, Whitespace, FALSE)
  IN  IF k > Len(s) THEN rest(s, from)
      ELSE SubSeq(s, from, k - 1) \o <<"%", "2", "0">> \o encodeSpaces(s, e)

RECURSIVE squeezeAfter(_, _, _)
\* s.replace(/pat\/+/g, pat) for a literal text pat that ends in a slash: the
\* slashes that follow an occurrence of pat are dropped
squeezeAfter(s, pat, from) ==
  LET k == indexOf(s, pat, from)
      e == firstAt(s, k + Len(pat), {"/"}, FALSE)
  IN  IF k = 0 THEN rest(s, from)
      ELSE SubSeq(s, from, k + Len(pat) - 1) \o squeezeAfter(s, pat, e)

RECURSIVE squeezeSlashes(_, _)
\* s.replace(/([^:]\/)\/+/g, '$1'): a run of slashes that does not follow a
\* colon shrinks to its first slash
squeezeSlashes(s, from) ==
  LET hits == {k \in from..(Len(s) - 2) :
                 s[k] # ":" /\ s[k + 1] = "/" /\ s[k + 2] = "/"}
      k == CHOOSE h \in hits : \A j \in hits : h <= j
      e == firstAt(s, k + 1, {"/"}, FALSE)
  IN  IF hits = {} THEN rest(s, from)
      ELSE SubSeq(s, from, k + 1) \o squeezeSlashes(s, e)

\* s.replace(/\/$/, '')
stripSlash(s) ==
  IF s # << >> /\ s[Len(s)] = "/" THEN SubSeq(s, 1, Len(s) - 1) ELSE s

\* new URL(s) for an absolute URL without credentials and port.  The special
\* schemes of the URL standard that need a host: they take any run of
\* slashes and backslashes before it and treat a backslash as a slash
SpecialSchemes == {<<"h", "t", "t", "p">>, <<"h", "t", "t", "p", "s">>, <<"f",
    "t", "p">>, <<"w", "s">>, <<"w", "s", "s">>}
SchemeChars == Letters \cup Digits \cup {"+", "-", "."}
\* what ends the host, and the characters a host cannot hold
HostEnd == {"/", "\\", "?", "#"}
ForbiddenHost == Whitespace \cup {"<", ">", "@", "[", "]", "^", "|", "%", ":"}
\* characters the path percent-encodes, with their codes, and the backslash
pathCode(c) ==
  CASE c = "{" -> <<"%", "7", "B">>
    [] c = "}" -> <<"%", "7", "D">>
    [] c = "<" -> <<"%", "3", "C">>
    [] c = ">" -> <<"%", "3", "E">>
    [] c = " " -> <<"%", "2", "0">>
    [] c = "\\" -> <<"/">>
    [] OTHER -> <<c>>
PathCoded == {"{", "}", "<", ">", " ", "\\"}

RECURSIVE encodePath(_, _)
encodePath(s, from) ==
  LET k == firstAt(s, from, PathCoded, TRUE)
  IN  IF k > Len(s) THEN rest(s, from)
      ELSE SubSeq(s, from, k - 1) \o pathCode(s[k]) \o encodePath(s, k + 1)

\* the segments of a path: the texts between its slashes
RECURSIVE segments(_, _)
segments(s, from) ==
  LET k == firstAt(s, from, {"/"}, TRUE)
  IN  IF k > Len(s) THEN <<rest(s, from)>>
      ELSE <<SubSeq(s, from, k - 1)>> \o segments(s, k + 1)

isSingleDot(seg) == toLowerCase(seg) \in {<<".">>, <<"%", "2", "e">>}
isDoubleDot(seg) ==
  toLowerCase(seg) \in {<<".", ".">>, <<".", "%", "2", "e">>, <<"%", "2", "e",
      ".">>, <<"%", "2", "e", "%", "2", "e">>}

RECURSIVE shorten(_, _, _)
\* the path state of the URL parser: `..` drops the last segment kept, `.`
\* keeps nothing, and either of them at the end leaves an empty segment
shorten(segs, k, kept) ==
  IF k > Len(segs) THEN kept
  ELSE LET seg == segs[k]
           last == k = Len(segs)
       IN  IF isDoubleDot(seg)
             THEN shorten(segs, k + 1,
                          LET cut == SubSeq(kept, 1, Len(kept) - 1)
                          IN  IF last THEN Append(cut, << >>) ELSE cut)
           ELSE IF isSingleDot(seg)
             THEN shorten(segs, k + 1,
                          IF last THEN Append(kept, << >>) ELSE kept)
           ELSE shorten(segs, k + 1, Append(kept, seg))

RECURSIVE joinPath(_, _)
joinPath(segs, k) ==
  IF k > Len(segs) THEN << >>
  ELSE <<"/">> \o segs[k] \o joinPath(segs, k + 1)

\* the pathname of a special URL from the text after the host
pathOf(s) ==
  IF s = << >> THEN <<"/">>
  ELSE LET coded == encodePath(s, 1)
           kept == shorten(segments(coded, 2), 1, << >>)
       IN  IF kept = << >> THEN <<"/">> ELSE joinPath(kept, 1)

NoUrlObj == [ok |-> FALSE, protocol |-> << >>, hostname |-> << >>,
             pathname |-> << >>, hasQuery |-> FALSE, query |-> << >>,
             hasHash |-> FALSE, hash |-> << >>]

\* new URL(s): ok is FALSE where the constructor throws
newURL(s) ==
  LET colon == firstAt(s, 1, {":"}, TRUE)
      scheme == toLowerCase(SubSeq(s, 1, colon - 1))
      afterScheme == firstAt(s, colon + 1, {"/", "\\"}, FALSE)
      hostStop == firstAt(s, afterScheme, HostEnd, TRUE)
      host == toLowerCase(SubSeq(s, afterScheme, hostStop - 1))
      hashAt == firstAt(s, colon + 1, {"#"}, TRUE)
      queryAt == firstAt(SubSeq(s, 1, hashAt - 1), colon + 1, {"?"}, TRUE)
      pathStop == IF queryAt < hashAt THEN queryAt ELSE hashAt
  IN  IF \/ colon > Len(s) \/ colon = 1
         \/ s[1] \notin Letters
         \/ \E k \in 1..(colon - 1) : s[k] \notin SchemeChars
        THEN NoUrlObj
      ELSE IF scheme \notin SpecialSchemes
        THEN [ok |-> TRUE, protocol |-> scheme \o <<":">>, hostname |-> << >>,
              pathname |-> SubSeq(s, colon + 1, pathStop - 1),
              hasQuery |-> queryAt < hashAt,
              query |-> SubSeq(s, queryAt + 1, hashAt - 1),
              hasHash |-> hashAt <= Len(s), hash |-> rest(s, hashAt + 1)]
      ELSE IF host = << >> \/ \E k \in 1..Len(host) : host[k] \in ForbiddenHost
        THEN NoUrlObj
      ELSE [ok |-> TRUE, protocol |-> scheme \o <<":">>, hostname |-> host,
            pathname |-> pathOf(SubSeq(s, hostStop, pathStop - 1)),
            hasQuery |-> queryAt < hashAt,
            query |-> SubSeq(s, queryAt + 1, hashAt - 1),
            hasHash |-> hashAt <= Len(s), hash |-> rest(s, hashAt + 1)]

\* URL.prototype.toString of a special URL
toString(u) ==
  u.protocol \o <<"/", "/">> \o u.hostname \o u.pathname
  \o (IF u.hasQuery THEN <<"?">> \o u.query ELSE << >>)
  \o (IF u.hasHash THEN <<"#">> \o u.hash ELSE << >>)

\* u.hash = ''
withoutHash(u) == [u EXCEPT !.hasHash = FALSE, !.hash = << >>]

\* url.length > 2000
MaxUrlLength == 2000

\* the misspellings cleanUrl repairs, in the order of its replace calls
Repairs ==
  << <<<<"C", "C", "r", "e", "d", "i", "t">>, <<"C", "r", "e", "d", "i",
      "t">>>>, <<<<"C", "a", "r", "r", "d", "s">>, <<"C", "a", "r", "d",
      "s">>>>,
     <<<<"C", "r", "e", "d", "i", "t", "t">>, <<"C", "r", "e", "d", "i",
         "t">>>>, <<<<"C", "C", "a", "r", "d">>, <<"C", "a", "r", "d">>>>,
     <<<<"S", "u", "p", "e", "e", "r">>, <<"S", "u", "p", "e", "r">>>>,
         <<<<"P", "r", "e", "e", "m", "i", "u", "m">>, <<"P", "r", "e", "m",
         "i", "u", "m">>>>,
     <<<<"i", "m", "m", "e", "d", "i", "i", "a", "t", "e">>, <<"i", "m", "m",
         "e", "d", "i", "a", "t", "e">>>>, <<<<"n", "a", "t", "i", "o", "n",
         "n", "a", "l">>, <<"n", "a", "t", "i", "o", "n", "a", "l">>>>,
     <<<<"r", "e", "m", "i", "t", "n", "n", "o", "w">>, <<"r", "e", "m", "i",
         "t", "n", "o", "w">>>>, <<<<"t", "t", "i", "m", "e">>, <<"t", "i",
         "m", "e">>>>,
     <<<<"C", "a", "r", "d", "d", "s">>, <<"C", "a", "r", "d", "s">>>>,
         <<<<"C", "r", "e", "d", "d", "i", "t">>, <<"C", "r", "e", "d", "i",
         "t">>>>,
     <<<<"p", "p", "a", "y">>, <<"p", "a", "y">>>>, <<<<"d", "o", "n", "a",
         "t", "t", "i", "o", "n", "s">>, <<"d", "o", "n", "a", "t", "i", "o",
         "n", "s">>>>,
     <<<<"%", "%", "2", "0">>, <<"%", "2", "0">>>>, <<<<"%", "2", "0", "%",
         "2", "0">>, <<"%", "2", "0">>>> >>

RECURSIVE repair(_, _)
\* if (cleaned.includes(typo)) cleaned = cleaned.replace(/typo/g, fix)
repair(s, k) ==
  IF k > Len(Repairs) THEN s
  ELSE IF contains(s, Repairs[k][1])
    THEN repair(replaceAll(s, Repairs[k][1], Repairs[k][2]), k + 1)
    ELSE repair(s, k + 1)

\* the template markers cleanUrl and isValidUrl look for
Markers == {<<"{", "{">>, <<"%", "7", "B", "%", "7", "B">>, <<"}", "}">>,
    <<"%", "7", "D", "%", "7", "D">>}

\* url.includes('{{') || url.includes('%7B%7B') || url.includes('}}') ||
\* url.includes('%7D%7D')
hasMarker(s) == \E m \in Markers : contains(s, m)

\* cleanUrl(url) for a string; Null where it returns null
cleanUrl(s) ==
  IF s = << >> \/ hasMarker(s) THEN Null
  ELSE stripSlash(
         squeezeSlashes(
           squeezeAfter(
             squeezeAfter(encodeSpaces(repair(trim(s), 1), 1),
                          <<"h", "t", "t", "p", "s", ":", "/", "/">>, 1),
             <<"h", "t", "t", "p", ":", "/", "/">>, 1),
           1))

\* corruptionPatterns of isValidUrl, and the alternatives of its second
\* pattern; all are tested with the flag i
corruptionPatterns ==
  {<<"c", "r", "e", "d", "d", "i", "t">>, <<"c", "a", "r", "d", "d", "s">>,
      <<"t", "r", "a", "a", "n", "s", "f", "e", "r">>, <<"m", "i", "l", "l",
      "l", "e", "n", "n", "i", "a">>, <<"c", "o", "m", "m", "m", "e", "r",
      "c", "i", "a", "l">>,
   <<"b", "u", "s", "i", "i", "n", "e", "s", "s">>, <<"c", "c", "r", "e", "d",
       "i", "t">>, <<"u", "u", "s", "e", "r", "s">>}
typoPatterns ==
  {<<"C", "C", "r", "e", "d", "i", "t">>, <<"i", "m", "m", "e", "d", "i", "i",
      "a", "t", "e">>, <<"n", "a", "t", "i", "o", "n", "n", "a", "l">>, <<"r",
      "e", "m", "i", "t", "n", "n", "o", "w">>, <<"t", "t", "i", "m", "e">>,
   <<"C", "a", "r", "d", "d", "s">>, <<"C", "r", "e", "d", "d", "i", "t">>,
       <<"p", "p", "a", "y">>, <<"d", "o", "n", "a", "t", "t", "i", "o", "n",
       "s">>}
validProtocols == {<<"h", "t", "t", "p", ":">>, <<"h", "t", "t", "p", "s",
    ":">>}
scriptSchemes == {<<"j", "a", "v", "a", "s", "c", "r", "i", "p", "t", ":">>,
    <<"d", "a", "t", "a", ":">>, <<"v", "b", "s", "c", "r", "i", "p", "t",
    ":">>, <<"f", "i", "l", "e", ":">>}

\* u.pathname.startsWith('/${u.hostname}/')
hostInPath(u) ==
  startsWith(u.pathname, <<"/">> \o u.hostname \o <<"/">>)

\* isValidUrl(url)
isValidUrl(s) ==
  LET urlObj == newURL(s)
  IN  /\ urlObj.ok
      /\ urlObj.protocol \in validProtocols
      /\ \A p \in corruptionPatterns : ~containsI(s, p)
      /\ \A p \in scriptSchemes : ~startsWith(toLowerCase(s), p)
      /\ urlObj.hostname # << >>
      /\ ~hasMarker(s)
      /\ \A p \in typoPatterns : ~containsI(s, p)
      /\ ~hostInPath(urlObj)
      /\ ~contains(s, <<"%", "%", "2", "0">>) /\ ~contains(s, <<"%", "2", "0",
          "%", "2", "0">>)
      /\ Len(s) <= MaxUrlLength

\* if (u.pathname.startsWith('/' + u.hostname + '/'))
\*   u.pathname = u.pathname.substring(u.hostname.length + 1)
stripHost(u) ==
  IF hostInPath(u)
    THEN [u EXCEPT !.pathname = rest(u.pathname, Len(u.hostname) + 2)]
    ELSE u

\* normalizeUrl(url); Null where it returns null
normalizeUrl(s) ==
  LET cleanedUrl == cleanUrl(s)
  IN  IF cleanedUrl = Null \/ cleanedUrl = << >> THEN Null
      ELSE IF ~isValidUrl(cleanedUrl) THEN Null
      ELSE IF ~newURL(cleanedUrl).ok THEN Null
      ELSE stripSlash(toString(withoutHash(stripHost(newURL(cleanedUrl)))))

\* ------------------------------------------- SpecNorm: normalizeUrl

\* the URLs normalizeUrl is called with: a scheme, a host, a path and an end
Schemes ==
  {<<"h", "t", "t", "p", "s", ":", "/", "/">>, <<"h", "t", "t", "p", ":", "/",
      "/">>, <<"H", "T", "T", "P", "S", ":", "/", "/">>, <<"h", "t", "t", "p",
      "s", ":", "/", "/", "/">>, <<" ", "h", "t", "t", "p", "s", ":", "/",
      "/">>,
   <<"f", "t", "p", ":", "/", "/">>}
Hosts == {<<"w", "w", "w", ".", "h", "d", "f", "c", "b", "a", "n", "k", ".",
    "c", "o", "m">>, <<"H", "D", "F", "C", "B", "a", "n", "k", ".", "c", "o",
    "m">>}
\* a path that brings https://www.hdfcbank.com to MaxUrlLength characters
LongPath == <<"/">> \o [k \in 1..(MaxUrlLength - 25) |-> "a"]
Paths ==
  {<< >>, <<"/", "p", "e", "r", "s", "o", "n", "a", "l", "/", "p", "a", "y",
      "/", "c", "a", "r", "d", "s">>, <<"/", "p", "e", "r", "s", "o", "n",
      "a", "l", "/", "/", "o", "f", "f", "e", "r", "s">>, <<"/", "P", "r",
      "e", "e", "m", "i", "u", "m", " ", "c", "a", "r", "d", "s">>,
   <<"/", "C", "C", "C", "a", "r", "d">>, <<"/", "{", "{", "c", "a", "r", "d",
       "I", "d", "}", "}">>, <<"/", "%", "7", "B", "%", "7", "B", "c", "a",
       "r", "d", "I", "d", "%", "7", "D", "%", "7", "D">>,
   <<"/", "%", "7", "b", "%", "7", "b", "c", "a", "r", "d", "I", "d", "%",
       "7", "d", "%", "7", "d">>, <<"/", "w", "w", "w", ".", "h", "d", "f",
       "c", "b", "a", "n", "k", ".", "c", "o", "m", "/", "p", "e", "r", "s",
       "o", "n", "a", "l">>, LongPath}
Ends == {<< >>, <<"/">>, <<"#", "t", "o", "p">>, <<"?", "p", "a", "g", "e",
    "=", "2">>}
Others ==
  {<< >>, <<"h", "t", "t", "p", "s", ":", "/", "/", "w", "w", "w", ".", "h",
      "d", "f", "c", "b", "a", "n", "k", ".", "c", "o", "m", "/", "w", "w",
      "w", ".", "h", "d", "f", "c", "b", "a", "n", "k", ".", "c", "o", "m",
      "/", "p", "e", "r", "s", "o", "n", "a", "l", "/", "o", "f", "f", "e",
      "r", "s">>,
   <<"h", "t", "t", "p", ":", "/", "/", "h", "d", "f", "c", "b", "a", "n",
       "k", ".", "c", "o", "m", "/", "h", "d", "f", "c", "b", "a", "n", "k",
       ".", "c", "o", "m", "/", "c", "r", "e", "d", "i", "t", "-", "c", "a",
       "r", "d", "/">>,
   <<"j", "a", "v", "a", "s", "c", "r", "i", "p", "t", ":", "v", "o",
      "i", "d", "(", "0", ")">>, <<"m", "a", "i", "l", "t", "o", ":", "s",
      "u", "p", "p", "o", "r", "t", "@", "h", "d", "f", "c", "b", "a", "n",
      "k", ".", "c", "o", "m">>,
   <<"/", "p", "e", "r", "s", "o", "n", "a", "l", "/", "o", "f", "f", "e",
       "r", "s">>, <<"w", "w", "w", ".", "h", "d", "f", "c", "b", "a", "n",
       "k", ".", "c", "o", "m">>}
UrlPool ==
  {sch \o h \o p \o e : sch \in Schemes, h \in Hosts, p \in Paths, e \in Ends}
  \cup Others

\* normalizeUrl(rawUrl) is called
NormalizeUrl ==
  /\ normalized = NotCalled
  /\ normalized' = normalizeUrl(rawUrl)
  /\ UNCHANGED <<rlvars, callervars, obsvars, runvars, retryvars, ehvars,
                 aggvars, batchvars, pdfvars,
                 rawUrl, renormalized, rawLinks, triaged>>

\* normalizeUrl is called with the URL it returned
NormalizeAgain ==
  /\ normalized \notin {NotCalled, Null}
  /\ renormalized = NotCalled
  /\ renormalized' = normalizeUrl(normalized)
  /\ UNCHANGED <<rlvars, callervars, obsvars, runvars, retryvars, ehvars,
                 aggvars, batchvars, pdfvars,
                 rawUrl, normalized, rawLinks, triaged>>

InitNorm ==
  /\ minDelayMs = minDelayMsDefault
  /\ InitLimiter
  /\ InitCallers
  /\ maxPages = 1
  /\ maxPDFs = 1
  /\ InitRunVars
  /\ InitErrorHandler
  /\ InitRetryVars
  /\ InitAgg
  /\ InitBatch
  /\ InitPdf
  /\ rawUrl \in UrlPool
  /\ normalized = NotCalled
  /\ renormalized = NotCalled
  /\ rawLinks = << >>
  /\ triaged = NotTriaged

NextNorm == NormalizeUrl \/ NormalizeAgain

SpecNorm == InitNorm /\ [][NextNorm]_vars

\* C25: normalizing a URL that normalizeUrl returned gives that URL again.
C25_Idempotent == renormalized # NotCalled => renormalized = normalized

\* the URL holds a template marker, literal or percent-encoded
templated(s) == \E m \in Markers : containsI(s, m)
\* the URL has a scheme other than http and https
foreignScheme(s) ==
  newURL(trim(s)).ok /\ newURL(trim(s)).protocol \notin validProtocols

\* C26: normalizeUrl returns null for a URL that holds '{{' or '}}' or their
\* percent-encoded forms, that has a scheme other than http and https, or
\* that is longer than 2000 characters.
C26_Rejected ==
  (/\ normalized # NotCalled
   /\ \/ templated(rawUrl)
      \/ foreignScheme(rawUrl)
      \/ Len(rawUrl) > MaxUrlLength)
    => normalized = Null

\* ------------------------------------------- SpecTriage: handleLinks

\* settings.baseDomain
baseDomain == <<"h", "d", "f", "c", "b", "a", "n", "k", ".", "c", "o", "m">>

\* A pattern of settings.js is one of: a text (has), a text at the end
\* (ends), a text a followed anywhere later by a text b (then), a text a
\* with no b anywhere after it (unless), a character other than a colon
\* followed by three slashes (run); i is its flag i
has(a) == [kind |-> "has", a |-> a, b |-> << >>, i |-> FALSE]
ends(a) == [kind |-> "ends", a |-> a, b |-> << >>, i |-> FALSE]
hasThen(a, b) == [kind |-> "then", a |-> a, b |-> b, i |-> FALSE]
unless(a, b) == [kind |-> "unless", a |-> a, b |-> b, i |-> FALSE]
slashRun == [kind |-> "run", a |-> <<"/", "/", "/">>, b |-> << >>, i |-> FALSE]
flagI(p) == [p EXCEPT !.i = TRUE]

\* RegExp.prototype.test
test(p, str) ==
  LET s == IF p.i THEN toLowerCase(str) ELSE str
      a == IF p.i THEN toLowerCase(p.a) ELSE p.a
      b == IF p.i THEN toLowerCase(p.b) ELSE p.b
      starts == {k \in 1..(Len(s) - Len(a) + 1) :
                   SubSeq(s, k, k + Len(a) - 1) = a}
  IN  CASE p.kind = "has" -> starts # {}
        [] p.kind = "ends" -> endsWith(s, a)
        [] p.kind = "then" ->
             \E k \in starts : contains(rest(s, k + Len(a)), b)
        [] p.kind = "unless" ->
             \E k \in starts : ~contains(rest(s, k + Len(a)), b)
        [] p.kind = "run" -> \E k \in starts : k > 1 /\ s[k - 1] # ":"

\* settings.ignorePatterns
ignorePatterns ==
  {has(<<"/", "l", "o", "g", "i", "n">>),
   has(<<"/", "n", "e", "t", "b", "a", "n", "k", "i", "n", "g">>),
   has(<<"/", "m", "y", "c", "a", "r", "d", "s">>),
   has(<<"/", "c", "a", "r", "e", "e", "r", "s">>),
   has(<<"/", "i", "n", "v", "e", "s", "t", "o", "r", "-", "r", "e", "l", "a",
       "t", "i", "o", "n", "s">>),
   has(<<"/", "p", "r", "e", "s", "s", "-", "r", "e", "l", "e", "a", "s", "e",
       "s">>),
   has(<<"/", "m", "o", "n", "e", "y", "-", "t", "r", "a", "n", "s", "f", "e",
       "r">>),
   has(<<"/", "u", "p", "i">>),
   has(<<"/", "d", "o", "n", "a", "t", "i", "o", "n">>),
   has(<<"/", "r", "e", "m", "i", "t", "t", "a", "n", "c", "e">>),
   has(<<"/", "f", "o", "r", "e", "x">>),
   has(<<"/", "b", "i", "l", "l", "-", "p", "a", "y">>),
   has(<<"/", "r", "e", "c", "h", "a", "r", "g", "e">>),
   has(<<"/", "f", "a", "s", "t", "a", "g">>),
   has(<<"/", "d", "e", "m", "a", "t">>),
   has(<<"/", "m", "u", "t", "u", "a", "l", "-", "f", "u", "n", "d">>),
   has(<<"/", "l", "o", "a", "n">>),
   has(<<"/", "d", "e", "p", "o", "s", "i", "t">>),
   has(<<"/", "s", "a", "v", "i", "n", "g", "s">>),
   has(<<"/", "c", "u", "r", "r", "e", "n", "t", "-", "a", "c", "c", "o", "u",
       "n", "t">>),
   has(<<"/", "d", "e", "b", "i", "t", "-", "c", "a", "r", "d">>),
   has(<<"/", "b", "u", "s", "i", "n", "e", "s", "s", "-", "c", "a", "r",
       "d">>),
   has(<<"/", "c", "o", "m", "m", "e", "r", "c", "i", "a", "l", "-", "c", "a",
       "r", "d">>),
   has(<<"/", "t", "a", "x">>),
   unless(<<"/", "i", "n", "s", "u", "r", "a", "n", "c", "e">>, <<"c", "r",
       "e", "d", "i", "t">>),
   has(<<"/", "p", "e", "r", "s", "o", "n", "a", "l", "-", "l", "o", "a",
       "n">>),
   has(<<"/", "h", "o", "m", "e", "-", "l", "o", "a", "n">>),
   has(<<"j", "a", "v", "a", "s", "c", "r", "i", "p", "t", ":">>),
   has(<<"m", "a", "i", "l", "t", "o", ":">>),
   has(<<"t", "e", "l", ":">>),
   ends(<<"#">>),
   has(<<"/", "s", "e", "a", "r", "c", "h">>),
   has(<<"/", "s", "i", "t", "e", "m", "a", "p">>),
   has(<<"/", "p", "r", "i", "v", "a", "c", "y", "-", "p", "o", "l", "i", "c",
       "y">>),
   has(<<"/", "c", "o", "o", "k", "i", "e", "-", "p", "o", "l", "i", "c",
       "y">>),
   has(<<"/", "c", "o", "n", "t", "a", "c", "t">>),
   has(<<"/", "a", "b", "o", "u", "t">>),
   ends(<<".", "c", "s", "s">>),
   ends(<<".", "j", "s">>),
   ends(<<".", "j", "p", "g">>),
   ends(<<".", "p", "n", "g">>),
   ends(<<".", "g", "i", "f">>),
   ends(<<".", "s", "v", "g">>),
   hasThen(<<"{", "{">>, <<"}", "}">>),
   hasThen(<<"%", "7", "B", "%", "7", "B">>, <<"%", "7", "D", "%", "7", "D">>),
   has(<<"C", "C", "r", "e", "d", "i", "t">>),
   has(<<"i", "m", "m", "e", "d", "i", "i", "a", "t", "e">>),
   has(<<"n", "a", "t", "i", "o", "n", "n", "a", "l">>),
   has(<<"r", "e", "m", "i", "t", "n", "n", "o", "w">>),
   slashRun}

\* settings.priorityPatterns
priorityPatterns ==
  << [pattern |-> flagI(hasThen(<<"r", "e", "g", "a", "l", "i", "a">>, <<"g",
      "o", "l", "d">>)), weight |-> 25],
     [pattern |-> flagI(hasThen(<<"c", "r", "e", "d", "i", "t">>, <<"c", "a",
         "r", "d">>)), weight |-> 20],
     [pattern |-> flagI(hasThen(<<"f", "e", "e", "s">>, <<"c", "h", "a", "r",
         "g", "e", "s">>)), weight |-> 18],
     [pattern |-> flagI(hasThen(<<"t", "e", "r", "m", "s">>, <<"c", "o", "n",
         "d", "i", "t", "i", "o", "n", "s">>)), weight |-> 15],
     [pattern |-> flagI(has(<<"b", "e", "n", "e", "f", "i", "t", "s">>)),
         weight |-> 12],
     [pattern |-> flagI(has(<<"r", "e", "w", "a", "r", "d", "s">>)),
         weight |-> 10],
     [pattern |-> flagI(has(<<"c", "a", "s", "h", "b", "a", "c", "k">>)),
         weight |-> 10],
     [pattern |-> flagI(has(<<"p", "o", "i", "n", "t", "s">>)), weight |-> 9],
     [pattern |-> flagI(has(<<"e", "l", "i", "g", "i", "b", "i", "l", "i",
         "t", "y">>)), weight |-> 8],
     [pattern |-> flagI(has(<<"i", "n", "s", "u", "r", "a", "n", "c", "e">>)),
         weight |-> 8],
     [pattern |-> flagI(has(<<"c", "o", "v", "e", "r", "a", "g", "e">>)),
         weight |-> 8],
     [pattern |-> flagI(has(<<"t", "n", "c">>)), weight |-> 15],
     [pattern |-> flagI(ends(<<".", "p", "d", "f">>)), weight |-> 12],
     [pattern |-> flagI(has(<<"p", "r", "i", "c", "i", "n", "g">>)),
         weight |-> 8],
     [pattern |-> flagI(has(<<"a", "p", "p", "l", "y">>)), weight |-> 7],
     [pattern |-> flagI(has(<<"f", "e", "a", "t", "u", "r", "e", "s">>)),
         weight |-> 9],
     [pattern |-> flagI(has(<<"o", "f", "f", "e", "r", "s">>)), weight |-> 8],
     [pattern |-> flagI(has(<<"l", "o", "u", "n", "g", "e">>)), weight |-> 7],
     [pattern |-> flagI(has(<<"m", "i", "l", "e", "s", "t", "o", "n", "e">>)),
         weight |-> 7] >>

RECURSIVE sumWeights(_, _)
sumWeights(s, k) ==
  IF k > Len(priorityPatterns) THEN 0
  ELSE (IF test(priorityPatterns[k].pattern, s)
          THEN priorityPatterns[k].weight ELSE 0)
       + sumWeights(s, k + 1)

\* getPriorityScore(url)
getPriorityScore(s) == sumWeights(s, 1)

\* variant: a link that matches a priority pattern is not ignored
isIgnoredUnlessPriority(s) ==
  (\E p \in ignorePatterns : test(p, s)) /\ getPriorityScore(s) = 0

\* isIgnored(url) for a string
isIgnored(s) == \E p \in ignorePatterns : test(p, s)

\* isPDFLink(url)
isPDFLink(s) ==
  newURL(s).ok /\ endsWith(toLowerCase(newURL(s).pathname), <<".", "p", "d",
      "f">>)

\* isInternalLink(url, baseDomain)
isInternalLink(s, domain) ==
  /\ newURL(s).ok
  /\ \/ newURL(s).hostname = domain
     \/ endsWith(newURL(s).hostname, <<".">> \o domain)


\* the anchors handed to handleLinks: href with the text and title of the
\* anchor
RawPool ==
  {[href |-> <<"/", "p", "e", "r", "s", "o", "n", "a", "l", "/", "o", "f",
      "f", "e", "r", "s">>, text |-> "Offers", title |-> ""],
   [href |-> <<"h", "t", "t", "p", "s", ":", "/", "/", "h", "d", "f", "c",
       "b", "a", "n", "k", ".", "c", "o", "m", "/", "p", "e", "r", "s", "o",
       "n", "a", "l", "/", "o", "f", "f", "e", "r", "s", "/", "#", "t", "o",
       "p">>,
    text |-> "All offers", title |-> "Offers"],
   [href |-> <<"h", "t", "t", "p", "s", ":", "/", "/", "w", "w", "w", ".",
       "h", "d", "f", "c", "b", "a", "n", "k", ".", "c", "o", "m", "/", "p",
       "e", "r", "s", "o", "n", "a", "l", "/", "f", "e", "e", "s", "-", "a",
       "n", "d", "-", "c", "h", "a", "r", "g", "e", "s">>,
    text |-> "Fees", title |-> ""],
   [href |-> <<"h", "t", "t", "p", "s", ":", "/", "/", "w", "w", "w", ".",
       "h", "d", "f", "c", "b", "a", "n", "k", ".", "c", "o", "m", "/", "l",
       "o", "g", "i", "n", "/", "c", "r", "e", "d", "i", "t", "-", "c", "a",
       "r", "d">>,
    text |-> "Login", title |-> ""],
   [href |-> <<"h", "t", "t", "p", "s", ":", "/", "/", "n", "o", "t", "h",
       "d", "f", "c", "b", "a", "n", "k", ".", "c", "o", "m", "/", "c", "r",
       "e", "d", "i", "t", "-", "c", "a", "r", "d">>,
    text |-> "Cards", title |-> ""],
   [href |-> <<"h", "t", "t", "p", "s", ":", "/", "/", "w", "w", "w", ".",
       "e", "x", "a", "m", "p", "l", "e", ".", "o", "r", "g", "/", "c", "r",
       "e", "d", "i", "t", "-", "c", "a", "r", "d">>,
    text |-> "Compare", title |-> ""],
   [href |-> <<"c", "o", "n", "t", "e", "n", "t", "/", "m", "i", "t", "c",
       ".", "p", "d", "f">>, text |-> "MITC", title |-> ""]}
MaxRawLinks == 3
RawLists == UNION {[1..n -> RawPool] : n \in 0..MaxRawLinks}

\* the hrefs the loop of processLinks skips before resolving them
skippedHref(href) ==
  \/ href = << >>
  \/ \E p \in {<<"j", "a", "v", "a", "s", "c", "r", "i", "p", "t", ":">>,
      <<"m", "a", "i", "l", "t", "o", ":">>, <<"t", "e", "l",
      ":">>} : startsWith(href, p)
  \/ href \in {<<"#">>, <<"/">>}

\* absoluteUrl of processLinks; Null where the loop continues.  A href that
\* starts with ./ or ../ is resolved against baseUrl, whose path is empty
absoluteUrl(href, baseUrl) ==
  IF startsWith(href, <<"/">>) THEN baseUrl \o href
  ELSE IF startsWith(href, <<"h", "t", "t", "p", ":", "/",
      "/">>) \/ startsWith(href, <<"h", "t", "t", "p", "s", ":", "/", "/">>)
    THEN href
  ELSE IF startsWith(href, <<".", "/">>) \/ startsWith(href, <<".", ".", "/">>)
    THEN toString(newURL(baseUrl \o <<"/">> \o href))
  ELSE IF ~contains(href, <<":", "/", "/">>) THEN baseUrl \o <<"/">> \o href
  ELSE Null

\* the body of the loop of processLinks for one link: the entry pushed to
\* processedLinks, or nothing
processLink(link, domain) ==
  LET baseUrl == <<"h", "t", "t", "p", "s", ":", "/", "/">> \o domain
      resolved == absoluteUrl(link.href, baseUrl)
      cleanedUrl == cleanUrl(resolved)
      urlObj == newURL(cleanedUrl)
      finalUrl == stripSlash(toString(withoutHash(urlObj)))
  IN  IF skippedHref(link.href) \/ resolved = Null THEN << >>
      ELSE IF cleanedUrl = Null \/ cleanedUrl = << >> THEN << >>
      ELSE IF ~urlObj.ok \/ ~contains(urlObj.hostname, domain) THEN << >>
      ELSE IF isIgnored(finalUrl) THEN << >>
      ELSE <<[href |-> finalUrl, text |-> link.text, title |-> link.title,
              priority |-> getPriorityScore(finalUrl),
              isPDF |-> isPDFLink(finalUrl)]>>

RECURSIVE processedOf(_, _)
\* processedLinks of processLinks after the loop
processedOf(links, domain) ==
  IF links = << >> THEN << >>
  ELSE processLink(Head(links), domain) \o processedOf(Tail(links), domain)

\* handleLinks(links, baseDomain), that is processLinks(links, baseDomain)
\* for an array and a string
handleLinks(links, domain) ==
  LET unique == uniqueLinks(processedOf(links, domain))
  IN  [called |-> TRUE,
       internalLinks |-> SelectSeq(unique, IsPage),
       pdfLinks |-> SelectSeq(unique, IsPDF)]

\* handleLinks(rawLinks, settings.baseDomain) is called
HandleLinks ==
  /\ ~triaged.called
  /\ triaged' = handleLinks(rawLinks, baseDomain)
  /\ UNCHANGED <<rlvars, callervars, obsvars, runvars, retryvars, ehvars,
                 aggvars, batchvars, pdfvars,
                 rawUrl, normalized, renormalized, rawLinks>>

InitTriage ==
  /\ minDelayMs = minDelayMsDefault
  /\ InitLimiter
  /\ InitCallers
  /\ maxPages = 1
  /\ maxPDFs = 1
  /\ InitRunVars
  /\ InitErrorHandler
  /\ InitRetryVars
  /\ InitAgg
  /\ InitBatch
  /\ InitPdf
  /\ rawUrl = << >>
  /\ normalized = NotCalled
  /\ renormalized = NotCalled
  /\ rawLinks \in RawLists
  /\ triaged = NotTriaged

NextTriage == HandleLinks

SpecTriage == InitTriage /\ [][NextTriage]_vars

\* the links handleLinks returned, pages then PDFs
output == triaged.internalLinks \o triaged.pdfLinks

\* C22: no link of the output of the triage has a URL that matches an
\* ignore pattern, whatever priority patterns it matches.
C22_IgnoredNeverKept ==
  \A k \in 1..Len(output) :
    \A p \in ignorePatterns : ~test(p, output[k].href)

LoginCard == <<"h", "t", "t", "p", "s", ":", "/", "/", "w", "w", "w", ".",
    "h", "d", "f", "c", "b", "a", "n", "k", ".", "c", "o", "m", "/", "l", "o",
    "g", "i", "n", "/", "c", "r", "e", "d", "i", "t", "-", "c", "a", "r", "d">>

\* the triage ran over a list that holds a link matching both an ignore
\* pattern and a priority pattern, and a link it keeps
C22_Witness ==
  /\ triaged.called
  /\ \E k \in 1..Len(rawLinks) : rawLinks[k].href = LoginCard
  /\ test(has(<<"/", "l", "o", "g", "i", "n">>), LoginCard)
  /\ getPriorityScore(LoginCard) > 0
  /\ output # << >>

\* C23: every link of the output of the triage has a host that is
\* baseDomain or a subdomain of it.
C23_InternalOnly ==
  \A k \in 1..Len(output) : isInternalLink(output[k].href, baseDomain)

\* the canonical URL of each link of the pool that the loop of processLinks
\* keeps, Null for a link it drops
canonicalOf ==
  [link \in RawPool |->
     LET entry == processLink(link, baseDomain)
     IN  IF entry = << >> THEN Null ELSE entry[1].href]

\* the canonical URLs of a list of raw links, position by position
canonicals(links) == [k \in 1..Len(links) |-> canonicalOf[links[k]]]

\* the first and the last position of a URL in a list of URLs
firstOf(urls, h) ==
  CHOOSE k \in 1..Len(urls) : urls[k] = h /\ \A j \in 1..(k - 1) : urls[j] # h
lastOf(urls, h) ==
  CHOOSE k \in 1..Len(urls) :
    urls[k] = h /\ \A j \in (k + 1)..Len(urls) : urls[j] # h

\* C24: the output of the triage holds each canonical URL at most once
\* across internalLinks and pdfLinks; in each list the entries stand in the
\* order of the first occurrences of their URLs among the raw links, and
\* each entry carries the text and title of the last raw link with its URL.
C24_Deduplicated ==
  LET urls == canonicals(rawLinks)
  IN  /\ \A a, b \in 1..Len(output) :
           a # b => output[a].href # output[b].href
      /\ \A list \in {triaged.internalLinks, triaged.pdfLinks} :
           \A a, b \in 1..Len(list) :
             a < b => firstOf(urls, list[a].href) < firstOf(urls, list[b].href)
      /\ \A k \in 1..Len(output) :
           LET last == rawLinks[lastOf(urls, output[k].href)]
           IN  output[k].text = last.text /\ output[k].title = last.title

\* the triage ran over two anchors of one page with another page between
\* them
C24_Witness ==
  /\ triaged.called
  /\ Len(rawLinks) = 3
  /\ rawLinks[1].text = "Offers"
  /\ rawLinks[2].text = "Fees"
  /\ rawLinks[3].text = "All offers"
  /\ Len(triaged.internalLinks) = 2
  /\ triaged.internalLinks[1].text = "All offers"
  /\ triaged.internalLinks[2].text = "Fees"

\* ------------------------------------------- SpecRun: phases of the run

\* the requests of the PDF loop
PdfRequests == {"HEAD", "DOWNLOAD"}

\* C31: the phases of a run are strictly sequenced: the seed page is the
\* first source before any link is triaged, every page fetch has settled
\* before the first PDF probe or download starts, and the aggregation is
\* reached only after the PDF loop is over.
C31_PhasesSequenced ==
  /\ [](phase = "Seed" => /\ internalLinks = << >> /\ pdfLinks = << >>
                          /\ pagesFetched = << >> /\ pdfsFetched = << >>
                          /\ sources = << >>)
  /\ [](phase # "Seed" => sources # << >> /\ sources[1] = cardUrl.href)
  /\ [](phase # "PDFs" => pdfsFetched = << >> /\ net.kind \notin PdfRequests)
  /\ [](phase = "PDFs" => Len(pagesFetched) = Len(pagesToCrawl))
  /\ [][phase' # phase =>
          \/ /\ phase = "Seed" /\ phase' = "Pages"
             /\ pc = "settled" /\ outcome = "ok"
             /\ sources' = <<cardUrl.href>>
          \/ /\ phase = "Pages" /\ phase' = "PDFs"
             /\ pc = "start" /\ i > Len(pagesToCrawl)]_vars
  /\ [][pc' = "Done" /\ pc # "Done" =>
          /\ phase = "PDFs" /\ pc = "start"
          /\ Len(pdfsFetched) = Len(pdfsToProcess)
          /\ i > Len(pdfsToProcess)]_vars
  /\ [](pc = "Completed" => phase = "PDFs")

\* a run that fetched the seed, a page and a PDF has reached the aggregation
C31_Witness ==
  /\ pc = "Done"
  /\ Len(sources) = 3
  /\ sources[1] = cardUrl.href
  /\ Len(pagesFetched) = 1
  /\ Len(pdfsFetched) = 1
  /\ sources[2] = pagesFetched[1].href
  /\ sources[3] = pdfsFetched[1].href

\* the failures of a GET that the retry policy calls permanent
Permanent == {"404", "4xx", "invalid"}

\* C32: the fetcher never retries a permanent failure: after an attempt
\* that fails with HTTP 404, another 4xx status other than 429, or a body
\* that fails content validation, fetchHTML makes no further attempt for
\* that URL and raises.
C32_PermanentNotRetried ==
  [][pc = "request" /\ lastError' \in Permanent =>
       /\ pc' = "settled"
       /\ outcome' = "throw"]_vars

\* the links the loop of the current phase runs over
linksOfPhase == IF phase = "Pages" THEN pagesToCrawl ELSE pdfsToProcess

\* C33: between any two consecutive fetches of the page loop, and of the
\* PDF loop, the run sleeps requestDelayMs, whatever the outcome of the
\* earlier fetch.
C33_DelayBetweenFetches ==
  [][/\ pc = "settled"
     /\ phase \in {"Pages", "PDFs"}
     /\ i < Len(linksOfPhase)
     => /\ pc' = "delay"
        /\ timer' = delay(requestDelayMs)]_vars

\* ------------------------------------------- SpecNorm: duplicated host

\* the URL is an http or https URL whose path begins with its own host
duplicatedHost(s) ==
  LET u == newURL(s)
  IN  u.ok /\ u.protocol \in validProtocols /\ hostInPath(u)

\* the URL with the duplicated host segment taken out of its path
withoutDuplicate(s) == toString(stripHost(newURL(s)))

\* C34: a URL whose path begins with its own host (https://host/host/rest)
\* is normalized to the canonical URL without the duplicated segment
\* (https://host/rest); normalizeUrl does not return null for it.
C34_DuplicateStripped ==
  (normalized # NotCalled /\ duplicatedHost(rawUrl)) =>
    /\ normalized # Null
    /\ normalized = normalizeUrl(withoutDuplicate(rawUrl))

\* ------------------------------------------- SpecAgg: nested fields

\* the values the sources offered for a key of an object field that are
\* not empty, in arrival order
RECURSIVE offeredValues(_, _)
offeredValues(srcs, k) ==
  IF srcs = << >> THEN << >>
  ELSE (IF truthy(Head(srcs).data.strKey[k])
          THEN <<Head(srcs).data.strKey[k]>> ELSE << >>)
       \o offeredValues(Tail(srcs), k)

\* the entries the sources offered for an array key of an object field
RECURSIVE offeredKeyEntries(_, _)
offeredKeyEntries(srcs, k) ==
  IF srcs = << >> THEN << >>
  ELSE (IF Head(srcs).data.arrKey[k] = AbsentArray THEN << >>
        ELSE Head(srcs).data.arrKey[k]) \o offeredKeyEntries(Tail(srcs), k)

\* C35: the object fields links, loungeAccess, insurance and contactInfo
\* are merged key by key: a key with a scalar value holds the first
\* non-empty value the sources offered for it, and a key with a collection
\* holds the trimmed non-empty entries the sources offered, each once, in
\* the order they were first offered.
C35_NestedMerge ==
  /\ \A k \in StringKeys :
       LET offered == offeredValues(aggSources, k)
       IN  IF offered = << >> THEN ~truthy(cardData.strKey[k])
           ELSE cardData.strKey[k] = Head(offered)
  /\ \A k \in ArrayKeys :
       LET merged == IF cardData.arrKey[k] = AbsentArray THEN << >>
                     ELSE cardData.arrKey[k]
           offered == offeredKeyEntries(aggSources, k)
       IN  /\ \A j, n \in DOMAIN merged : j # n => merged[j] # merged[n]
           /\ {merged[n] : n \in DOMAIN merged}
                = {trim(offered[n]) : n \in DOMAIN offered} \ {<< >>}
           /\ \A j, n \in DOMAIN merged :
                j < n =>
                  firstSeen(offered, merged[j]) < firstSeen(offered, merged[n])

\* three sources offered an empty value, then two different values for one
\* key, and padded, empty and repeated entries for links.pdfs
C35_Witness ==
  /\ Len(aggSources) = 3
  /\ aggSources[1].data.strKey[<<"loungeAccess", "domestic">>] = << >>
  /\ aggSources[2].data.strKey[<<"loungeAccess", "domestic">>] = TwoVisits
  /\ aggSources[3].data.strKey[<<"loungeAccess", "domestic">>] = EightVisits
  /\ cardData.strKey[<<"loungeAccess", "domestic">>] = TwoVisits
  /\ Len(offeredKeyEntries(aggSources, <<"links", "pdfs">>)) = 7
  /\ cardData.arrKey[<<"links", "pdfs">>] = <<TermsPdf, MitcPdf>>

\* ------------------------------------------- SpecRun: one fetchHTML call

\* the positions of the run inside a fetchHTML call
InFetchHTML == {"acquire", "spacing", "waiting", "permitted", "request",
                "sleep429", "retrySleep"}

\* C36: one fetchHTML call numbers its attempts 1, 2, ... up to
\* retryAttempts at most, an attempt after HTTP 429 included; each attempt
\* calls the rate limiter once and issues its one GET only when that call
\* has returned; the call ends by returning validated HTML or by raising
\* the last error.
C36_BoundedAttempts ==
  /\ [](pc \in InFetchHTML => attempt \in 1..retryAttempts)
  /\ [][pc' = "acquire" =>
          \/ (pc = "start" /\ attempt' = 1)
          \/ (pc = "retrySleep" /\ attempt' = nextAttempt(attempt))]_vars
  /\ [][pc' = "request" /\ pc # "request" =>
          /\ pc = "permitted"
          /\ permit = target.host
          /\ attempt' = attempt
          /\ net'.kind = "GET"]_vars
  /\ [][(pc \in {"spacing", "waiting", "permitted"}) =>
          /\ pc' \in {"spacing", "waiting", "permitted", "request"}
          /\ attempt' = attempt]_vars
  /\ [][(pc \in {"request", "sleep429"}) /\ pc' # pc =>
          /\ pc' \in {"settled", "sleep429", "retrySleep"}
          /\ attempt' = attempt
          /\ net' = net]_vars
  /\ [][pc' = "settled" /\ pc \in InFetchHTML =>
          \/ /\ pc = "request"
             /\ outcome' \in {"ok", "null"}
             /\ lastError' = "none"
          \/ /\ outcome' = "throw"
             /\ lastError' # "none"
             /\ (lastError' \in {"404", "4xx"} \/ attempt = retryAttempts)]_vars

\* a fetchHTML call has made retryAttempts attempts, the last one answered
\* with HTTP 429, and has raised
C36_Witness ==
  /\ pc = "settled"
  /\ phase = "Pages"
  /\ outcome = "throw"
  /\ attempt = retryAttempts
  /\ lastError = "429"
  /\ sameErrorRun < retryAttempts

\* ------------------------------------------- SpecRun: the seed fails

\* crawlPage(settings.cardUrl) has thrown or returned null
SeedRejected ==
  /\ pc = "settled"
  /\ phase = "Seed"
  /\ outcome \in {"null", "throw"}

\* C37: when the seed fetch raises or the seed page is rejected by the
\* relevance gate, the run takes the fatal exit: no link is triaged, no
\* internal page or PDF is fetched, no source is added and no output is
\* written.
C37_SeedFailureFatal ==
  /\ [][SeedRejected =>
          /\ pc' = "Failed"
          /\ UNCHANGED <<phase, internalLinks, pdfLinks, sources,
                         pagesFetched, pdfsFetched, net>>]_vars
  /\ [](pc = "Failed" /\ phase = "Seed" =>
          /\ internalLinks = << >> /\ pdfLinks = << >>
          /\ sources = << >>
          /\ pagesFetched = << >> /\ pdfsFetched = << >>)
  /\ [][pc = "Failed" => pc' = "Failed" /\ net' = net]_vars

\* the run has failed on a seed page that was fetched and scored below the
\* relevance threshold
C37_Witness ==
  /\ pc = "Failed"
  /\ phase = "Seed"
  /\ outcome = "null"
  /\ lowRelevance
  /\ net.kind = "GET"

\* ------------------------------------------- SpecTrack: trackError, reset

\* trackError(errorInfo) is called; detectErrorPatterns only logs
TrackError(type, url) ==
  /\ Len(tracked) < MaxTracked
  /\ LET t == trackError(type, url) IN
     /\ errorCounts' = t.errorCounts
     /\ consecutiveErrors' = t.consecutiveErrors
     /\ lastErrorKey' = t.lastErrorKey
  /\ tracked' = Append(tracked, errorKey(type, url))
  /\ UNCHANGED <<rlvars, callervars, obsvars, runvars, retryvars, errors,
                 handled, fatal, exited, aggvars, batchvars, urlvars, pdfvars>>

\* ErrorHandler.reset()
ResetHandler ==
  /\ errors' = << >>
  /\ errorCounts' = [k \in Keys |-> 0]
  /\ consecutiveErrors' = [k \in Keys |-> 0]
  /\ lastErrorKey' = NoKey
  /\ tracked' = << >>
  /\ UNCHANGED <<rlvars, callervars, obsvars, runvars, retryvars, handled,
                 fatal, exited, aggvars, batchvars, urlvars, pdfvars>>

InitTrack == InitErr

NextTrack ==
  \/ \E type \in TrackedTypes, url \in ContextUrls : TrackError(type, url)
  \/ ResetHandler

SpecTrack == InitTrack /\ [][NextTrack]_vars

\* how often the key k was tracked
timesTracked(k) == Cardinality({j \in 1..Len(tracked) : tracked[j] = k})

\* the length of the run of equal keys that ends the keys tracked
trailingRun ==
  LET n == Len(tracked)
  IN  CHOOSE r \in 1..n :
        /\ \A j \in (n - r + 1)..n : tracked[j] = tracked[n]
        /\ r = n \/ tracked[n - r] # tracked[n]

\* C38: after any sequence of tracked errors since the last reset, every
\* key tracked has 1 <= consecutiveErrors[key] <= errorCounts[key], a key
\* not tracked has no entry, and the consecutive counter of the key tracked
\* last is the length of the run of that key that ends the sequence.
C38_ConsecutiveWithinTotal ==
  /\ \A k \in Keys :
       IF timesTracked(k) = 0
         THEN errorCounts[k] = 0 /\ consecutiveErrors[k] = 0
         ELSE /\ errorCounts[k] = timesTracked(k)
              /\ 1 <= consecutiveErrors[k]
              /\ consecutiveErrors[k] <= errorCounts[k]
  /\ IF tracked = << >> THEN lastErrorKey = NoKey
     ELSE /\ lastErrorKey = tracked[Len(tracked)]
          /\ consecutiveErrors[lastErrorKey] = trailingRun

\* a key was tracked twice, then another key, then the first key again:
\* its run was restarted at 1 while its total is 3
C38_Witness ==
  /\ Len(tracked) = 4
  /\ tracked[1] = tracked[2]
  /\ tracked[3] # tracked[2]
  /\ tracked[4] = tracked[1]
  /\ consecutiveErrors[lastErrorKey] = 1
  /\ errorCounts[lastErrorKey] = 3

\* ------------------------------------------- SpecBatch: bounded batches

\* the crawlPage calls in flight
pending == {u \in 1..NumUrls : crawl[u] = "pending"}

\* the crawlPage calls that have settled
settled == {u \in 1..NumUrls : crawl[u] \in CrawlOutcomes}

\* C39: crawlMultiplePages(urls, c) never has more than c crawls in flight,
\* starts a batch only when every crawl of the batches before it has
\* settled, records a crawl that failed in errors without touching the
\* other crawls of its batch, and returns only when every URL was crawled.
C39_BoundedBatches ==
  /\ [](Cardinality(pending) <= concurrency)
  /\ [][pending' \ pending # {} =>
          /\ pending = {}
          /\ pending' = batch(bi, concurrency)
          /\ \A u \in 1..(bi - 1) : u \in settled]_vars
  /\ [][\A u \in 1..NumUrls :
          crawl'[u] = "thrown" /\ crawl[u] # "thrown" =>
            /\ batchErrors' = Append(batchErrors, u)
            /\ bpc' = "batch"
            /\ pending' = pending \ {u}
            /\ \A v \in 1..NumUrls \ {u} : crawl'[v] = crawl[v]]_vars
  /\ [](\A u \in 1..NumUrls :
          crawl[u] = "thrown" <=> \E k \in 1..Len(batchErrors) : batchErrors[k] = u)
  /\ [](bpc = "done" => settled = 1..NumUrls)

\* a call with concurrency 2 has returned; in its first batch the crawl of
\* the first URL failed and the crawl of the second, which settled later,
\* gave a page
C39_Witness ==
  /\ bpc = "done"
  /\ concurrency = 2
  /\ crawl[1] = "thrown"
  /\ crawl[2] = "page"
  /\ completed[1] = 1
  /\ completed[2] = 2
  /\ batchErrors[1] = 1
  /\ results[1] = 2

====
